---- MODULE Spec2Model ----
(***************************************************************************)
(* react-mng-2: user / role / permission administration backend            *)
(* (Go + Gin + GORM over SQLite).                                          *)
(*                                                                         *)
(* The database is modelled as three tables keyed by primary key (users,   *)
(* roles, perms) and the many2many join table role_permissions.  Every     *)
(* HTTP handler and every service operation is one action; the last        *)
(* response sent is kept in resp.  Message strings of the source are       *)
(* Chinese; the lexer takes ASCII only, so each message is an ASCII string *)
(* with the source text in the comment beside it.  created_at/updated_at   *)
(* are not modelled.                                                       *)
(***************************************************************************)
EXTENDS Integers, Sequences, FiniteSets, TLC

VARIABLES
    users,       \* users table: id -> row
    nextUserId,  \* AUTOINCREMENT counter of users
    roles,       \* roles table: id -> row
    nextRoleId,  \* AUTOINCREMENT counter of roles
    perms,       \* permissions table: id -> row
    nextPermId,  \* AUTOINCREMENT counter of permissions
    rolePerms,   \* role_permissions join table: set of <<role_id, permission_id>>
    now,         \* server clock, in token lifetimes
    session,     \* the token a client holds (NoToken when none)
    resp,        \* the last response sent
    browser,     \* the React app in the client's browser: AuthContext and location
    calls        \* service calls in progress, one per request goroutine

vars == <<users, nextUserId, roles, nextRoleId, perms, nextPermId, rolePerms,
          now, session, resp, browser, calls>>

db == <<users, nextUserId, roles, nextRoleId, perms, nextPermId, rolePerms>>

-----------------------------------------------------------------------------
(* Bounds of the model *)

MaxUserId == 2    \* users are created while the counter is at most this
MaxRoleId == 3    \* likewise roles
MaxNewPerms == 3  \* permissions created beyond the seeded ones
MaxHeldPerms == 2 \* of them, where roles are given permissions
MaxNow == 1       \* the clock stops here
MaxPage == 3      \* list requests ask for pages 1..MaxPage
MaxPageSize == 2  \* of 1..MaxPageSize rows

Usernames == {"admin", "bob"}
Passwords == {"admin123", "pw2"}
RoleCodes == {"admin", "user"}
Codes == {"a", "b", "c"}

-----------------------------------------------------------------------------
(* Response envelope: utils.Success / utils.Error *)

CodeSuccess == 200
CodeError == 500
HttpOK == 200
HttpBadRequest == 400
HttpUnauthorized == 401

MsgSuccess == "success"
MsgBadParams == "bad params"                    \* 参数错误
MsgBadCredentials == "bad username or password" \* 用户名或密码错误
MsgUserNotFound == "user not found"             \* 用户不存在
MsgUsernameExists == "username exists"          \* 用户名已存在
MsgProfileFailed == "profile failed"            \* 获取用户信息失败
MsgDeleteUserFailed == "delete user failed"     \* 删除用户失败
MsgRoleCodeExists == "role code exists"         \* 角色代码已存在
MsgDeleteRoleFailed == "delete role failed"     \* 删除角色失败
MsgUnauthorized == "unauthorized"
MsgUniqueViolation == "UNIQUE constraint failed"
MsgRecordNotFound == "record not found"         \* gorm.ErrRecordNotFound
MsgDbError == "database error"
MsgPermCodeExists == "permission with code already exists"
MsgOldPasswordWrong == "old password wrong"     \* 旧密码错误
MsgChangePasswordFailed == "change password failed" \* 修改密码失败

NoToken == [uid |-> 0, username |-> "", exp |-> 0, sig |-> "none"]
ForgedToken == [uid |-> 1, username |-> "admin", exp |-> MaxNow + 2, sig |-> "forged"]

(* A request as the handlers read it: path id, JSON body fields ("" and     *)
(* NoStatus stand for an absent field), and what the bearer check said.     *)
NoStatus == <<>>     \* Status *int: nil
Status(v) == <<v>>   \* Status *int: pointer to v
NoBody == [id |-> 0, username |-> "", password |-> "", status |-> NoStatus,
           name |-> "", code |-> "", page |-> 0, pageSize |-> 0,
           permission_ids |-> {}, old_password |-> ""]

(* A permission forest as GetPermissionTrees builds it: nodes is treeMap    *)
(* (code -> node, a node's Children being the codes of the nodes it points *)
(* to), roots the slice returned.                                           *)
NoTree == [roots |-> <<>>, nodes |-> <<>>]

(* route, req, auth: the request; reached: its handler ran (the middleware  *)
(* let it through); token, id, list, total: what data carries.              *)
Success(route, req, auth, tok, id) ==
    [route |-> route, req |-> req, auth |-> auth,
     http |-> HttpOK, code |-> CodeSuccess, msg |-> MsgSuccess,
     reached |-> TRUE, token |-> tok, id |-> id, list |-> <<>>, total |-> 0,
     tree |-> NoTree]

(* What a service called directly returns: msg is the error, "" for nil *)
Returned(op, req, err) ==
    [route |-> op, req |-> req, auth |-> FALSE,
     http |-> 0, code |-> 0, msg |-> err,
     reached |-> TRUE, token |-> NoToken, id |-> 0, list |-> <<>>, total |-> 0,
     tree |-> NoTree]

PageData(route, req, auth, list, total) ==
    [Success(route, req, auth, NoToken, 0) EXCEPT !.list = list, !.total = total]

Error(route, req, auth, http, msg) ==
    [route |-> route, req |-> req, auth |-> auth,
     http |-> http, code |-> CodeError, msg |-> msg,
     reached |-> TRUE, token |-> NoToken, id |-> 0, list |-> <<>>, total |-> 0,
     tree |-> NoTree]

-----------------------------------------------------------------------------
(* Passwords: bcrypt.GenerateFromPassword / CompareHashAndPassword.  The    *)
(* hash is a value distinct from the plaintext; the salt is not modelled.   *)

GenerateFromPassword(pw) == <<"bcrypt", pw>>

CompareHashAndPassword(hash, pw) == hash = GenerateFromPassword(pw)

VerifyPasswordAnyPassword(user, password) == TRUE

VerifyPassword(user, password) == CompareHashAndPassword(user.password, password)

-----------------------------------------------------------------------------
(* JWT: utils.GenerateToken and middleware.AuthMiddleware are not among the *)
(* sources; they are modelled from the specification (HMAC-signed token     *)
(* carrying user id and username, expiring one lifetime after issue).       *)

GenerateToken(uid, username) ==
    [uid |-> uid, username |-> username, exp |-> now + 1, sig |-> "HS256"]

AuthMiddleware(tok) == tok.sig = "HS256" /\ tok.exp > now

-----------------------------------------------------------------------------
(* Schema: models.User.  Username carries a unique index.                   *)

UserRow(username, hash, status) ==
    [username |-> username, password |-> hash, status |-> status, role_id |-> 0]

UsernameTaken(tbl, username, exceptId) ==
    \E i \in DOMAIN tbl : i # exceptId /\ tbl[i].username = username

(* UserService.GetUserByUsername: the row's id, 0 when there is none *)
GetUserByUsername(username) ==
    IF \E i \in DOMAIN users : users[i].username = username
    THEN CHOOSE i \in DOMAIN users : users[i].username = username
    ELSE 0

InsertUserNoIndex(row) ==
    [err |-> "", tbl |-> [i \in DOMAIN users \cup {nextUserId} |->
                            IF i = nextUserId THEN row ELSE users[i]]]

(* INSERT INTO users: the unique index on username rejects a duplicate *)
InsertUser(row) ==
    IF UsernameTaken(users, row.username, 0)
    THEN [err |-> MsgUniqueViolation, tbl |-> users]
    ELSE [err |-> "", tbl |-> [i \in DOMAIN users \cup {nextUserId} |->
                                 IF i = nextUserId THEN row ELSE users[i]]]

(* UserService.CreateUser *)
CreateUserNoCheck(username, password) ==
    InsertUser(UserRow(username, GenerateFromPassword(password), 1))

CreateUser(username, password) ==
    IF UsernameTaken(users, username, 0)
    THEN [err |-> MsgUsernameExists, tbl |-> users]
    ELSE InsertUser(UserRow(username, GenerateFromPassword(password), 1))

(* UPDATE users SET ... WHERE id = ?: no row matched is not an error; the   *)
(* unique index rejects a username another row holds.                       *)
ApplyUserUpdatesSkippingZero(row, updates) ==
    [row EXCEPT
       !.username = IF updates.username # "" THEN updates.username ELSE @,
       !.password = IF updates.password # ""
                    THEN GenerateFromPassword(updates.password) ELSE @,
       !.status = IF updates.status # NoStatus /\ updates.status[1] # 0
                  THEN updates.status[1] ELSE @]

ApplyUserUpdatesIntoRoleId(row, updates) ==
    [row EXCEPT
       !.username = IF updates.username # "" THEN updates.username ELSE @,
       !.password = IF updates.password # ""
                    THEN GenerateFromPassword(updates.password) ELSE @,
       !.role_id = IF updates.status # NoStatus THEN updates.status[1] ELSE @]

ApplyUserUpdates(row, updates) ==
    [row EXCEPT
       !.username = IF updates.username # "" THEN updates.username ELSE @,
       !.password = IF updates.password # ""
                    THEN GenerateFromPassword(updates.password) ELSE @,
       !.status = IF updates.status # NoStatus THEN updates.status[1] ELSE @]

UpdateUserNoIndex(id, updates) ==
    IF id \notin DOMAIN users
    THEN [err |-> "", tbl |-> users]
    ELSE [err |-> "", tbl |-> [users EXCEPT ![id] = ApplyUserUpdates(@, updates)]]

(* UserService.UpdateUser *)
UpdateUser(id, updates) ==
    IF id \notin DOMAIN users
    THEN [err |-> "", tbl |-> users]
    ELSE IF updates.username # "" /\ UsernameTaken(users, updates.username, id)
    THEN [err |-> MsgUniqueViolation, tbl |-> users]
    ELSE [err |-> "", tbl |-> [users EXCEPT ![id] = ApplyUserUpdates(@, updates)]]

(* UserService.DeleteUser: DELETE FROM users WHERE id = ? *)
DeleteUser(id) ==
    [err |-> "", tbl |-> [i \in DOMAIN users \ {id} |-> users[i]]]

(* UserService.GetUserList / RoleService.GetRoleList: a COUNT, then       *)
(* OFFSET (page-1)*pageSize LIMIT pageSize over the rows in primary-key     *)
(* order.                                                                   *)
RECURSIVE SortedIds(_)
SortedIds(S) ==
    IF S = {} THEN <<>>
    ELSE LET m == CHOOSE x \in S : \A y \in S : x <= y
         IN <<m>> \o SortedIds(S \ {m})

GetListOffsetByPage(tbl, page, pageSize) ==
    LET ids == SortedIds(DOMAIN tbl)
        offset == page * pageSize
    IN [list |-> SubSeq(ids, offset + 1,
                        IF offset + pageSize < Len(ids) THEN offset + pageSize
                        ELSE Len(ids)),
        total |-> Len(ids)]

GetList(tbl, page, pageSize) ==
    LET ids == SortedIds(DOMAIN tbl)
        offset == (page - 1) * pageSize
    IN [list |-> SubSeq(ids, offset + 1,
                        IF offset + pageSize < Len(ids) THEN offset + pageSize
                        ELSE Len(ids)),
        total |-> Len(ids)]

-----------------------------------------------------------------------------
(* Schema: models.Role (unique index on code), models.Permission (unique    *)
(* index on code) and the join table role_permissions.  The DSN enables no  *)
(* foreign-key enforcement, so the join table is constrained by nothing.    *)

RoleRow(name, code) == [name |-> name, code |-> code]

RoleCodeTaken(tbl, code, exceptId) ==
    \E i \in DOMAIN tbl : i # exceptId /\ tbl[i].code = code

InsertRole(row) ==
    IF RoleCodeTaken(roles, row.code, 0)
    THEN [err |-> MsgUniqueViolation, tbl |-> roles]
    ELSE [err |-> "", tbl |-> [i \in DOMAIN roles \cup {nextRoleId} |->
                                 IF i = nextRoleId THEN row ELSE roles[i]]]

(* RoleService.CreateRole *)
CreateRole(name, code) ==
    IF RoleCodeTaken(roles, code, 0)
    THEN [err |-> MsgRoleCodeExists, tbl |-> roles]
    ELSE InsertRole(RoleRow(name, code))

UpdateRoleNoIndex(id, updates) ==
    IF id \notin DOMAIN roles
    THEN [err |-> "", tbl |-> roles]
    ELSE [err |-> "", tbl |-> [roles EXCEPT ![id] =
            [@ EXCEPT !.name = IF updates.name # "" THEN updates.name ELSE @,
                      !.code = IF updates.code # "" THEN updates.code ELSE @]]]

(* RoleService.UpdateRole *)
UpdateRole(id, updates) ==
    IF id \notin DOMAIN roles
    THEN [err |-> "", tbl |-> roles]
    ELSE IF updates.code # "" /\ RoleCodeTaken(roles, updates.code, id)
    THEN [err |-> MsgUniqueViolation, tbl |-> roles]
    ELSE [err |-> "", tbl |-> [roles EXCEPT ![id] =
            [@ EXCEPT !.name = IF updates.name # "" THEN updates.name ELSE @,
                      !.code = IF updates.code # "" THEN updates.code ELSE @]]]

(* RoleService.DeleteRole: DELETE FROM roles WHERE id = ?, and nothing on   *)
(* role_permissions.                                                        *)
DeleteRole(id) ==
    [err |-> "", tbl |-> [i \in DOMAIN roles \ {id} |-> roles[i]],
     rp |-> rolePerms]

(* RoleService.GetRoleByID *)
GetRoleByID(id) ==
    IF id \in DOMAIN roles THEN [err |-> "", id |-> id]
    ELSE [err |-> MsgRecordNotFound, id |-> 0]

(* UserService.GetUserByID *)
GetUserByID(id) ==
    IF id \in DOMAIN users THEN [err |-> "", id |-> id]
    ELSE [err |-> MsgUserNotFound, id |-> 0]

-----------------------------------------------------------------------------
(* PermissionService: CRUD on permissions.  A database call may fail; fail  *)
(* names the call that does ("" when none does).                            *)

PermRow(code, parent, type, sort) ==
    [code |-> code, parent_code |-> parent, type |-> type, sort |-> sort]

PermCodeTaken(tbl, code, exceptId) ==
    \E i \in DOMAIN tbl : i # exceptId /\ tbl[i].code = code

(* PermissionService.CreatePermission *)
CreatePermission(row) ==
    IF PermCodeTaken(perms, row.code, 0)
    THEN [err |-> MsgPermCodeExists, tbl |-> perms]
    ELSE [err |-> "", tbl |-> [i \in DOMAIN perms \cup {nextPermId} |->
                                 IF i = nextPermId THEN row ELSE perms[i]]]

UpdatePermissionAnyCode(id, row) ==
    IF id \notin DOMAIN perms
    THEN [err |-> MsgRecordNotFound, tbl |-> perms]
    ELSE [err |-> "", tbl |-> [perms EXCEPT ![id] = row]]

(* PermissionService.UpdatePermission: Save writes every column of the row *)
UpdatePermission(id, row) ==
    IF id \notin DOMAIN perms
    THEN [err |-> MsgRecordNotFound, tbl |-> perms]
    ELSE IF row.code # perms[id].code /\ PermCodeTaken(perms, row.code, id)
    THEN [err |-> MsgPermCodeExists, tbl |-> perms]
    ELSE [err |-> "", tbl |-> [perms EXCEPT ![id] = row]]

(* PermissionService.DeletePermission: one transaction; every failure rolls *)
(* it back.                                                                 *)
DeletePermissionNoTx(id, fail) ==
    LET cleared == {x \in rolePerms : x[2] # id}
        deleted == [i \in DOMAIN perms \ {id} |-> perms[i]]
    IN  IF fail = "begin"
        THEN [err |-> MsgDbError, tbl |-> perms, rp |-> rolePerms]
        ELSE IF id \notin DOMAIN perms
        THEN [err |-> MsgRecordNotFound, tbl |-> perms, rp |-> rolePerms]
        ELSE IF fail = "first" \/ fail = "clear"
        THEN [err |-> MsgDbError, tbl |-> perms, rp |-> rolePerms]
        ELSE IF fail = "delete"
        THEN [err |-> MsgDbError, tbl |-> perms, rp |-> cleared]
        ELSE IF fail = "commit"
        THEN [err |-> MsgDbError, tbl |-> deleted, rp |-> cleared]
        ELSE [err |-> "", tbl |-> deleted, rp |-> cleared]

DeletePermission(id, fail) ==
    LET committed == [tbl |-> perms, rp |-> rolePerms]
        cleared == [committed EXCEPT !.rp = {x \in rolePerms : x[2] # id}]
        deleted == [cleared EXCEPT !.tbl = [i \in DOMAIN perms \ {id} |-> perms[i]]]
        Rollback(e) == [err |-> e, tbl |-> committed.tbl, rp |-> committed.rp]
    IN  IF fail = "begin" THEN Rollback(MsgDbError)
        ELSE IF id \notin DOMAIN perms THEN Rollback(MsgRecordNotFound)
        ELSE IF fail \in {"first", "clear", "delete", "commit"} THEN Rollback(MsgDbError)
        ELSE [err |-> "", tbl |-> deleted.tbl, rp |-> deleted.rp]

(* PermissionService.GetRolePermissions: the permissions the role's join    *)
(* rows lead to                                                             *)
GetRolePermissions(roleID) ==
    IF roleID \notin DOMAIN roles
    THEN [err |-> MsgRecordNotFound, ids |-> {}]
    ELSE [err |-> "", ids |-> {i \in DOMAIN perms : <<roleID, i>> \in rolePerms}]

AssignPermissionsToRoleNoClear(roleID, permissionIDs, fail) ==
    LET found == permissionIDs \cap DOMAIN perms
        appended == rolePerms \cup {<<roleID, i>> : i \in found}
    IN  IF roleID \notin DOMAIN roles THEN [err |-> MsgRecordNotFound, rp |-> rolePerms]
        ELSE IF fail = "first" THEN [err |-> MsgDbError, rp |-> rolePerms]
        ELSE IF permissionIDs = {} THEN [err |-> "", rp |-> rolePerms]
        ELSE IF fail = "find" \/ fail = "append" THEN [err |-> MsgDbError, rp |-> rolePerms]
        ELSE [err |-> "", rp |-> appended]

(* PermissionService.AssignPermissionsToRole: Clear, then Find and Append, *)
(* each its own statement.                                                  *)
AssignPermissionsToRole(roleID, permissionIDs, fail) ==
    LET cleared == {x \in rolePerms : x[1] # roleID}
        found == permissionIDs \cap DOMAIN perms
        appended == cleared \cup {<<roleID, i>> : i \in found}
    IN  IF roleID \notin DOMAIN roles THEN [err |-> MsgRecordNotFound, rp |-> rolePerms]
        ELSE IF fail = "first" THEN [err |-> MsgDbError, rp |-> rolePerms]
        ELSE IF fail = "clear" THEN [err |-> MsgDbError, rp |-> rolePerms]
        ELSE IF permissionIDs = {} THEN [err |-> "", rp |-> cleared]
        ELSE IF fail = "find" \/ fail = "append" THEN [err |-> MsgDbError, rp |-> cleared]
        ELSE [err |-> "", rp |-> appended]

-----------------------------------------------------------------------------
(* PermissionService.GetAllPermissions: ORDER BY type ASC, sort ASC, id ASC *)

RowBefore(tbl, i, j) ==
    \/ tbl[i].type < tbl[j].type
    \/ tbl[i].type = tbl[j].type /\ tbl[i].sort < tbl[j].sort
    \/ tbl[i].type = tbl[j].type /\ tbl[i].sort = tbl[j].sort /\ i <= j

RECURSIVE OrderRows(_, _)
OrderRows(tbl, S) ==
    IF S = {} THEN <<>>
    ELSE LET m == CHOOSE x \in S : \A y \in S : RowBefore(tbl, x, y)
         IN <<m>> \o OrderRows(tbl, S \ {m})

GetAllPermissions == OrderRows(perms, DOMAIN perms)

(* PermissionService.GetPermissionTrees *)

(* first loop: treeMap[perm.Code] = &PermissionTree{...} *)
NewNode(id, row) ==
    [ID |-> id, Code |-> row.code, ParentCode |-> row.parent_code,
     Type |-> row.type, Sort |-> row.sort, Children |-> <<>>, HasChildren |-> FALSE]

RECURSIVE CreateNodes(_, _, _)
CreateNodes(permissions, i, treeMap) ==
    IF i > Len(permissions) THEN treeMap
    ELSE LET id == permissions[i]
             code == perms[id].code
         IN CreateNodes(permissions, i + 1,
                [c \in DOMAIN treeMap \cup {code} |->
                    IF c = code THEN NewNode(id, perms[id]) ELSE treeMap[c]])

(* second loop: a permission with an empty parent_code joins roots, one    *)
(* whose parent_code is a key of treeMap joins that node's Children, any   *)
(* other is left out.                                                       *)
RECURSIVE LinkNodesNoFlag(_, _, _)
LinkNodesNoFlag(permissions, i, t) ==
    IF i > Len(permissions) THEN t
    ELSE LET perm == perms[permissions[i]]
         IN IF perm.parent_code = ""
            THEN LinkNodesNoFlag(permissions, i + 1,
                                 [t EXCEPT !.roots = Append(@, perm.code)])
            ELSE IF perm.parent_code \in DOMAIN t.nodes
            THEN LinkNodesNoFlag(permissions, i + 1,
                                 [t EXCEPT !.nodes[perm.parent_code].Children =
                                              Append(@, perm.code)])
            ELSE LinkNodesNoFlag(permissions, i + 1, t)

RECURSIVE LinkNodesAppendingTwice(_, _, _)
LinkNodesAppendingTwice(permissions, i, t) ==
    IF i > Len(permissions) THEN t
    ELSE LET perm == perms[permissions[i]]
         IN IF perm.parent_code = ""
            THEN LinkNodesAppendingTwice(permissions, i + 1,
                           [t EXCEPT !.roots = Append(@, perm.code)])
            ELSE IF perm.parent_code \in DOMAIN t.nodes
            THEN LinkNodesAppendingTwice(permissions, i + 1,
                           [t EXCEPT !.nodes[perm.parent_code] =
                               [@ EXCEPT !.Children =
                                             Append(Append(@, perm.code), perm.code),
                                         !.HasChildren = TRUE]])
            ELSE LinkNodesAppendingTwice(permissions, i + 1, t)

RECURSIVE LinkNodes(_, _, _)
LinkNodes(permissions, i, t) ==
    IF i > Len(permissions) THEN t
    ELSE LET perm == perms[permissions[i]]
         IN IF perm.parent_code = ""
            THEN LinkNodes(permissions, i + 1,
                           [t EXCEPT !.roots = Append(@, perm.code)])
            ELSE IF perm.parent_code \in DOMAIN t.nodes
            THEN LinkNodes(permissions, i + 1,
                           [t EXCEPT !.nodes[perm.parent_code] =
                               [@ EXCEPT !.Children = Append(@, perm.code),
                                         !.HasChildren = TRUE]])
            ELSE LinkNodes(permissions, i + 1, t)

(* the comparison both sort.Slice calls are given *)
LessSortDescending(nodes, a, b) ==
    IF nodes[a].Type = nodes[b].Type
    THEN nodes[a].Sort > nodes[b].Sort
    ELSE nodes[a].Type < nodes[b].Type

LessOrEqualSort(nodes, a, b) ==
    IF nodes[a].Type = nodes[b].Type
    THEN nodes[a].Sort <= nodes[b].Sort
    ELSE nodes[a].Type < nodes[b].Type

Less(nodes, a, b) ==
    IF nodes[a].Type = nodes[b].Type
    THEN nodes[a].Sort < nodes[b].Sort
    ELSE nodes[a].Type < nodes[b].Type

(* sort.Slice: on fewer than 12 elements an insertion sort *)
RECURSIVE SiftDown(_, _, _)
SiftDown(nodes, s, j) ==
    IF j > 1 /\ Less(nodes, s[j], s[j - 1])
    THEN SiftDown(nodes, [s EXCEPT ![j] = s[j - 1], ![j - 1] = s[j]], j - 1)
    ELSE s

RECURSIVE InsertionSort(_, _, _)
InsertionSort(nodes, s, i) ==
    IF i > Len(s) THEN s
    ELSE InsertionSort(nodes, SiftDown(nodes, s, i), i + 1)

SortSlice(nodes, s) == InsertionSort(nodes, s, 2)

(* sortChildren: sorts the Children of each node of the slice and descends *)
RECURSIVE sortChildren(_, _, _)
sortChildren(nodes, slice, i) ==
    IF i > Len(slice) THEN nodes
    ELSE LET c == slice[i]
         IN IF Len(nodes[c].Children) > 0
            THEN LET sorted == SortSlice(nodes, nodes[c].Children)
                     n1 == [nodes EXCEPT ![c].Children = sorted]
                     n2 == sortChildren(n1, sorted, 1)
                 IN sortChildren(n2, slice, i + 1)
            ELSE sortChildren(nodes, slice, i + 1)

GetPermissionTrees ==
    LET permissions == GetAllPermissions
        treeMap == CreateNodes(permissions, 1, <<>>)
        linked == LinkNodes(permissions, 1, [roots |-> <<>>, nodes |-> treeMap])
        roots == SortSlice(linked.nodes, linked.roots)
    IN  [roots |-> roots, nodes |-> sortChildren(linked.nodes, roots, 1)]

-----------------------------------------------------------------------------
(* api.RegisterRoutes: each route's handler chain, group middleware first. *)

RegisterRoutesUsersOpen ==
    ("POST /auth/login" :> <<"Login">>) @@
    ("POST /auth/logout" :> <<"Logout">>) @@
    ("GET /auth/profile" :> <<"AuthMiddleware", "GetProfile">>) @@
    ("GET /users" :> <<"UserController.GetList">>) @@
    ("GET /users/:id" :> <<"UserController.GetDetail">>) @@
    ("POST /users" :> <<"UserController.Create">>) @@
    ("PUT /users/:id" :> <<"UserController.Update">>) @@
    ("DELETE /users/:id" :> <<"UserController.Delete">>) @@
    ("GET /roles" :> <<"AuthMiddleware", "RoleController.GetList">>) @@
    ("GET /roles/:id" :> <<"AuthMiddleware", "RoleController.GetDetail">>) @@
    ("POST /roles" :> <<"AuthMiddleware", "RoleController.Create">>) @@
    ("PUT /roles/:id" :> <<"AuthMiddleware", "RoleController.Update">>) @@
    ("DELETE /roles/:id" :> <<"AuthMiddleware", "RoleController.Delete">>)

RegisterRoutes ==
    ("POST /auth/login" :> <<"Login">>) @@
    ("POST /auth/logout" :> <<"Logout">>) @@
    ("GET /auth/profile" :> <<"AuthMiddleware", "GetProfile">>) @@
    ("GET /users" :> <<"AuthMiddleware", "UserController.GetList">>) @@
    ("GET /users/:id" :> <<"AuthMiddleware", "UserController.GetDetail">>) @@
    ("POST /users" :> <<"AuthMiddleware", "UserController.Create">>) @@
    ("PUT /users/:id" :> <<"AuthMiddleware", "UserController.Update">>) @@
    ("DELETE /users/:id" :> <<"AuthMiddleware", "UserController.Delete">>) @@
    ("GET /roles" :> <<"AuthMiddleware", "RoleController.GetList">>) @@
    ("GET /roles/:id" :> <<"AuthMiddleware", "RoleController.GetDetail">>) @@
    ("POST /roles" :> <<"AuthMiddleware", "RoleController.Create">>) @@
    ("PUT /roles/:id" :> <<"AuthMiddleware", "RoleController.Update">>) @@
    ("DELETE /roles/:id" :> <<"AuthMiddleware", "RoleController.Delete">>)

(* gin runs the chain in order; the handler (the last element) runs when    *)
(* no middleware before it aborted the request.                             *)
Admitted(route, tok) ==
    \A i \in 1..(Len(RegisterRoutes[route]) - 1) :
        RegisterRoutes[route][i] = "AuthMiddleware" => AuthMiddleware(tok)

Unauthorized(route, tok) ==
    [route |-> route, req |-> NoBody, auth |-> AuthMiddleware(tok),
     http |-> HttpUnauthorized, code |-> HttpUnauthorized, msg |-> MsgUnauthorized,
     reached |-> FALSE, token |-> NoToken, id |-> 0, list |-> <<>>, total |-> 0,
     tree |-> NoTree]

(* A request the middleware aborts *)
Abort(route, tok) ==
    /\ ~Admitted(route, tok)
    /\ resp' = Unauthorized(route, tok)
    /\ UNCHANGED <<db, now, session, browser, calls>>

-----------------------------------------------------------------------------
(* AuthController *)

LoginResultCheckingStatus(username, password) ==
    LET route == "POST /auth/login"
        req == [NoBody EXCEPT !.username = username, !.password = password]
        uid == GetUserByUsername(username)
    IN  IF username = "" \/ password = ""
        THEN Error(route, req, FALSE, HttpBadRequest, MsgBadParams)
        ELSE IF uid = 0
        THEN Error(route, req, FALSE, HttpOK, MsgBadCredentials)
        ELSE IF ~VerifyPassword(users[uid], password) \/ users[uid].status = 0
        THEN Error(route, req, FALSE, HttpOK, MsgBadCredentials)
        ELSE Success(route, req, FALSE,
                     GenerateToken(uid, users[uid].username), uid)

LoginResultNamingMissingUser(username, password) ==
    LET route == "POST /auth/login"
        req == [NoBody EXCEPT !.username = username, !.password = password]
        uid == GetUserByUsername(username)
    IN  IF username = "" \/ password = ""
        THEN Error(route, req, FALSE, HttpBadRequest, MsgBadParams)
        ELSE IF uid = 0
        THEN Error(route, req, FALSE, HttpOK, MsgUserNotFound)
        ELSE IF ~VerifyPassword(users[uid], password)
        THEN Error(route, req, FALSE, HttpOK, MsgBadCredentials)
        ELSE Success(route, req, FALSE,
                     GenerateToken(uid, users[uid].username), uid)

LoginResult(username, password) ==
    LET route == "POST /auth/login"
        req == [NoBody EXCEPT !.username = username, !.password = password]
        uid == GetUserByUsername(username)
    IN  IF username = "" \/ password = ""
        THEN Error(route, req, FALSE, HttpBadRequest, MsgBadParams)
        ELSE IF uid = 0
        THEN Error(route, req, FALSE, HttpOK, MsgBadCredentials)
        ELSE IF ~VerifyPassword(users[uid], password)
        THEN Error(route, req, FALSE, HttpOK, MsgBadCredentials)
        ELSE Success(route, req, FALSE,
                     GenerateToken(uid, users[uid].username), uid)

Login(username, password) ==
    /\ Admitted("POST /auth/login", NoToken)
    /\ resp' = LoginResult(username, password)
    /\ session' = IF resp'.code = CodeSuccess THEN resp'.token ELSE session
    /\ UNCHANGED <<db, now, browser, calls>>

LogoutDisablingUser(tok) ==
    /\ Admitted("POST /auth/logout", tok)
    /\ resp' = Success("POST /auth/logout", NoBody, AuthMiddleware(tok), NoToken, 0)
    /\ users' = [i \in DOMAIN users |->
                   IF i = tok.uid THEN [users[i] EXCEPT !.status = 0] ELSE users[i]]
    /\ UNCHANGED <<nextUserId, roles, nextRoleId, perms, nextPermId, rolePerms,
                   now, session, browser, calls>>

Logout(tok) ==
    /\ Admitted("POST /auth/logout", tok)
    /\ resp' = Success("POST /auth/logout", NoBody, AuthMiddleware(tok), NoToken, 0)
    /\ UNCHANGED <<db, now, session, browser, calls>>

GetProfile(tok) ==
    LET route == "GET /auth/profile"
        r == GetUserByID(tok.uid)
    IN  /\ Admitted(route, tok)
        /\ resp' = IF r.err # ""
                   THEN Error(route, NoBody, AuthMiddleware(tok), HttpOK, MsgProfileFailed)
                   ELSE Success(route, NoBody, AuthMiddleware(tok), NoToken, r.id)
        /\ UNCHANGED <<db, now, session, browser, calls>>

(* AuthController.ChangePassword: the caller is the user_id the auth        *)
(* middleware put in the context                                            *)
ChangePasswordUnchecked(tok, oldPassword, newPassword) ==
    LET route == "POST /auth/change-password"
        req == [NoBody EXCEPT !.old_password = oldPassword, !.password = newPassword]
        u == GetUserByID(tok.uid)
        r == UpdateUser(tok.uid, [username |-> "", password |-> newPassword,
                                  status |-> NoStatus])
    IN  /\ AuthMiddleware(tok)
        /\ IF oldPassword = "" \/ newPassword = ""
           THEN /\ resp' = Error(route, req, TRUE, HttpBadRequest, MsgBadParams)
                /\ users' = users
           ELSE IF u.err # ""
           THEN /\ resp' = Error(route, req, TRUE, HttpOK, MsgProfileFailed)
                /\ users' = users
           ELSE /\ resp' = IF r.err # ""
                           THEN Error(route, req, TRUE, HttpOK, MsgChangePasswordFailed)
                           ELSE Success(route, req, TRUE, NoToken, 0)
                /\ users' = r.tbl
        /\ UNCHANGED <<nextUserId, roles, nextRoleId, perms, nextPermId, rolePerms,
                       now, session, browser, calls>>

ChangePassword(tok, oldPassword, newPassword) ==
    LET route == "POST /auth/change-password"
        req == [NoBody EXCEPT !.old_password = oldPassword, !.password = newPassword]
        u == GetUserByID(tok.uid)
        r == UpdateUser(tok.uid, [username |-> "", password |-> newPassword,
                                  status |-> NoStatus])
    IN  /\ AuthMiddleware(tok)
        /\ IF oldPassword = "" \/ newPassword = ""
           THEN /\ resp' = Error(route, req, TRUE, HttpBadRequest, MsgBadParams)
                /\ users' = users
           ELSE IF u.err # ""
           THEN /\ resp' = Error(route, req, TRUE, HttpOK, MsgProfileFailed)
                /\ users' = users
           ELSE IF ~VerifyPassword(users[u.id], oldPassword)
           THEN /\ resp' = Error(route, req, TRUE, HttpOK, MsgOldPasswordWrong)
                /\ users' = users
           ELSE /\ resp' = IF r.err # ""
                           THEN Error(route, req, TRUE, HttpOK, MsgChangePasswordFailed)
                           ELSE Success(route, req, TRUE, NoToken, 0)
                /\ users' = r.tbl
        /\ UNCHANGED <<nextUserId, roles, nextRoleId, perms, nextPermId, rolePerms,
                       now, session, browser, calls>>

-----------------------------------------------------------------------------
(* UserController *)

UserGetList(tok, page, pageSize) ==
    LET route == "GET /users"
        req == [NoBody EXCEPT !.page = page, !.pageSize = pageSize]
        r == GetList(users, page, pageSize)
    IN  /\ Admitted(route, tok)
        /\ resp' = PageData(route, req, AuthMiddleware(tok), r.list, r.total)
        /\ UNCHANGED <<db, now, session, browser, calls>>

UserGetDetail(tok, id) ==
    LET route == "GET /users/:id"
        req == [NoBody EXCEPT !.id = id]
        r == GetUserByID(id)
    IN  /\ Admitted(route, tok)
        /\ resp' = IF r.err # ""
                   THEN Error(route, req, AuthMiddleware(tok), HttpOK, r.err)
                   ELSE Success(route, req, AuthMiddleware(tok), NoToken, r.id)
        /\ UNCHANGED <<db, now, session, browser, calls>>

UserCreate(tok, username, password) ==
    LET route == "POST /users"
        req == [NoBody EXCEPT !.username = username, !.password = password]
        r == CreateUser(username, password)
    IN  /\ Admitted(route, tok)
        /\ nextUserId <= MaxUserId
        /\ IF username = "" \/ password = ""
           THEN /\ resp' = Error(route, req, AuthMiddleware(tok), HttpBadRequest, MsgBadParams)
                /\ UNCHANGED <<users, nextUserId>>
           ELSE IF r.err # ""
           THEN /\ resp' = Error(route, req, AuthMiddleware(tok), HttpOK, r.err)
                /\ users' = r.tbl
                /\ UNCHANGED nextUserId
           ELSE /\ resp' = Success(route, req, AuthMiddleware(tok), NoToken, nextUserId)
                /\ users' = r.tbl
                /\ nextUserId' = nextUserId + 1
        /\ UNCHANGED <<roles, nextRoleId, perms, nextPermId, rolePerms, now, session, browser, calls>>

UserUpdate(tok, id, username, status) ==
    LET route == "PUT /users/:id"
        req == [NoBody EXCEPT !.id = id, !.username = username, !.status = status]
        updates == [username |-> username, password |-> "", status |-> status]
        r == UpdateUser(id, updates)
    IN  /\ Admitted(route, tok)
        /\ resp' = IF r.err # ""
                   THEN Error(route, req, AuthMiddleware(tok), HttpOK, r.err)
                   ELSE Success(route, req, AuthMiddleware(tok), NoToken, 0)
        /\ users' = r.tbl
        /\ UNCHANGED <<nextUserId, roles, nextRoleId, perms, nextPermId, rolePerms,
                       now, session, browser, calls>>

UserDelete(tok, id) ==
    LET route == "DELETE /users/:id"
        req == [NoBody EXCEPT !.id = id]
        r == DeleteUser(id)
    IN  /\ Admitted(route, tok)
        /\ resp' = IF r.err # ""
                   THEN Error(route, req, AuthMiddleware(tok), HttpOK, MsgDeleteUserFailed)
                   ELSE Success(route, req, AuthMiddleware(tok), NoToken, 0)
        /\ users' = r.tbl
        /\ UNCHANGED <<nextUserId, roles, nextRoleId, perms, nextPermId, rolePerms,
                       now, session, browser, calls>>

-----------------------------------------------------------------------------
(* RoleController *)

RoleGetList(tok, page, pageSize) ==
    LET route == "GET /roles"
        req == [NoBody EXCEPT !.page = page, !.pageSize = pageSize]
        r == GetList(roles, page, pageSize)
    IN  /\ Admitted(route, tok)
        /\ resp' = PageData(route, req, AuthMiddleware(tok), r.list, r.total)
        /\ UNCHANGED <<db, now, session, browser, calls>>

RoleGetDetail(tok, id) ==
    LET route == "GET /roles/:id"
        req == [NoBody EXCEPT !.id = id]
        r == GetRoleByID(id)
    IN  /\ Admitted(route, tok)
        /\ resp' = IF r.err # ""
                   THEN Error(route, req, AuthMiddleware(tok), HttpOK, r.err)
                   ELSE Success(route, req, AuthMiddleware(tok), NoToken, r.id)
        /\ UNCHANGED <<db, now, session, browser, calls>>

RoleCreate(tok, name, code) ==
    LET route == "POST /roles"
        req == [NoBody EXCEPT !.name = name, !.code = code]
        r == CreateRole(name, code)
    IN  /\ Admitted(route, tok)
        /\ nextRoleId <= MaxRoleId
        /\ IF name = "" \/ code = ""
           THEN /\ resp' = Error(route, req, AuthMiddleware(tok), HttpBadRequest, MsgBadParams)
                /\ UNCHANGED <<roles, nextRoleId>>
           ELSE IF r.err # ""
           THEN /\ resp' = Error(route, req, AuthMiddleware(tok), HttpOK, r.err)
                /\ roles' = r.tbl
                /\ UNCHANGED nextRoleId
           ELSE /\ resp' = Success(route, req, AuthMiddleware(tok), NoToken, nextRoleId)
                /\ roles' = r.tbl
                /\ nextRoleId' = nextRoleId + 1
        /\ UNCHANGED <<users, nextUserId, perms, nextPermId, rolePerms, now, session, browser, calls>>

RoleUpdate(tok, id, name, code) ==
    LET route == "PUT /roles/:id"
        req == [NoBody EXCEPT !.id = id, !.name = name, !.code = code]
        r == UpdateRole(id, [name |-> name, code |-> code])
    IN  /\ Admitted(route, tok)
        /\ resp' = IF r.err # ""
                   THEN Error(route, req, AuthMiddleware(tok), HttpOK, r.err)
                   ELSE Success(route, req, AuthMiddleware(tok), NoToken, 0)
        /\ roles' = r.tbl
        /\ UNCHANGED <<users, nextUserId, nextRoleId, perms, nextPermId, rolePerms,
                       now, session, browser, calls>>

RoleDelete(tok, id) ==
    LET route == "DELETE /roles/:id"
        req == [NoBody EXCEPT !.id = id]
        r == DeleteRole(id)
    IN  /\ Admitted(route, tok)
        /\ resp' = IF r.err # ""
                   THEN Error(route, req, AuthMiddleware(tok), HttpOK, MsgDeleteRoleFailed)
                   ELSE Success(route, req, AuthMiddleware(tok), NoToken, 0)
        /\ roles' = r.tbl
        /\ rolePerms' = r.rp
        /\ UNCHANGED <<users, nextUserId, nextRoleId, perms, nextPermId, now, session, browser, calls>>

(* The clock advances *)
Tick ==
    /\ now < MaxNow
    /\ now' = now + 1
    /\ UNCHANGED <<db, session, resp, browser, calls>>

-----------------------------------------------------------------------------
(* The React app: AuthProvider (context/AuthContext.jsx) and PrivateRoute   *)
(* (components/PrivateRoute.jsx).  token is the localStorage item, user and *)
(* loading the two useState cells, effect whether the mount effect is still *)
(* to run, fetching whether fetchUserInfo awaits its response, location the *)
(* router's path.  store is the token held by the store that request.js     *)
(* reads (useAuthStore.getState().token), sent the Authorization header of  *)
(* the last request that left through the shared request instance, and      *)
(* loginToken the token login() was last called with on this page.          *)

NoUser == "null"
NoStoredToken == "null"
StoredTokens == {"t1", "t2"}
UserData == {"admin", "bob"}
Locations == {"/login", "/dashboard", "/system/user", "/system/role", "/nowhere"}
NoRequest == [scheme |-> "no request", token |-> "null"]
NoHeader == [scheme |-> "no header", token |-> "null"]
Bearer(token) == [scheme |-> "Bearer", token |-> token]

(* a page load: useState(null), useState(true), the mount effect pending *)
PageLoad(token, location) ==
    [token |-> token, user |-> NoUser, loading |-> TRUE, effect |-> TRUE,
     fetching |-> FALSE, location |-> location,
     store |-> NoStoredToken, sent |-> NoRequest, loginToken |-> NoStoredToken]

(* the store of ../stores is created with the page; what token it starts    *)
(* with is its own business: none, or one it kept from an earlier page      *)
PageLoads(token, location) ==
    {[PageLoad(token, location) EXCEPT !.store = s] :
        s \in {NoStoredToken} \cup StoredTokens}

(* request.interceptors.request: the Authorization header a request leaves  *)
(* with                                                                      *)
RequestInterceptor(auth) ==
    IF auth.store # NoStoredToken THEN Bearer(auth.store) ELSE NoHeader

(* isAuthenticated: !!user *)
isAuthenticated(auth) == auth.user # NoUser

(* PrivateRoute: what it returns for an auth state *)
PrivateRouteNoSpinner(auth) ==
    IF isAuthenticated(auth) THEN "children" ELSE "Navigate /login"

PrivateRoute(auth) ==
    IF auth.loading THEN "Spin"
    ELSE IF isAuthenticated(auth) THEN "children"
    ELSE "Navigate /login"

(* router/index.jsx: /login and the catch-all route are public, the paths *)
(* under / are wrapped                                                      *)
Routes(auth) ==
    IF auth.location = "/login" THEN "Login"
    ELSE IF auth.location \in {"/dashboard", "/system/user", "/system/role"}
    THEN PrivateRoute(auth)
    ELSE "NotFound"

-----------------------------------------------------------------------------
(* Requests are served one goroutine each (Gin), so two service calls can   *)
(* be in progress at once; each statement on models.DB is one step.         *)

Procs == {1, 2}
NoCall == [op |-> "", pc |-> "idle", username |-> "", password |-> "",
           roleID |-> 0, ids |-> {}, found |-> {}, fresh |-> FALSE, err |-> ""]
NoCalls == [p \in Procs |-> NoCall]

-----------------------------------------------------------------------------
(* models.initDefaultData: what InitDB leaves in an empty database.         *)

DefaultPermissions ==
    << PermRow("system", "", 1, 0),
       PermRow("system:user", "system", 1, 1),
       PermRow("system:role", "system", 1, 2),
       PermRow("system:permission", "system", 1, 3),
       PermRow("system:user:view", "system:user", 2, 1),
       PermRow("system:user:add", "system:user", 2, 2),
       PermRow("system:user:edit", "system:user", 2, 3),
       PermRow("system:user:delete", "system:user", 2, 4),
       PermRow("system:role:view", "system:role", 2, 1),
       PermRow("system:role:add", "system:role", 2, 2),
       PermRow("system:role:edit", "system:role", 2, 3),
       PermRow("system:role:delete", "system:role", 2, 4),
       PermRow("system:permission:view", "system:permission", 2, 1),
       PermRow("system:permission:assign", "system:permission", 2, 2),
       PermRow("dashboard", "", 1, 0) >>

DefaultUsers == 1 :> UserRow("admin", GenerateFromPassword("admin123"), 1)

DefaultRoles == (1 :> RoleRow("super admin", "admin")) @@ (2 :> RoleRow("user", "user"))

NumDefaultPermissions == Len(DefaultPermissions)

initDefaultData ==
    /\ users = DefaultUsers
    /\ nextUserId = 2
    /\ roles = DefaultRoles
    /\ nextRoleId = 3
    /\ perms = [i \in 1..NumDefaultPermissions |-> DefaultPermissions[i]]
    /\ nextPermId = NumDefaultPermissions + 1
    /\ rolePerms = {<<1, i>> : i \in 1..NumDefaultPermissions}

NoResponse ==
    [route |-> "", req |-> NoBody, auth |-> FALSE, http |-> 0, code |-> 0, msg |-> "",
     reached |-> FALSE, token |-> NoToken, id |-> 0, list |-> <<>>, total |-> 0,
     tree |-> NoTree]

-----------------------------------------------------------------------------
(* The server after InitDB on an empty database, serving the user and auth  *)
(* routes to a client that sends the token it holds.                        *)

Init ==
    /\ initDefaultData
    /\ now = 0
    /\ session = NoToken
    /\ resp = NoResponse
    /\ browser = PageLoad(NoStoredToken, "/login")
    /\ calls = NoCalls

Bearers == {session, ForgedToken}
UserIds == 1..MaxUserId
StatusInputs == {NoStatus, Status(0), Status(1)}

Next ==
    \/ \E u \in Usernames \cup {"", "ghost"}, p \in Passwords \cup {""} : Login(u, p)
    \/ Logout(session)
    \/ GetProfile(session)
    \/ \E u \in Usernames \cup {""}, p \in Passwords : UserCreate(session, u, p)
    \/ \E i \in UserIds, u \in Usernames \cup {""}, st \in StatusInputs :
          UserUpdate(session, i, u, st)
    \/ \E i \in UserIds : UserDelete(session, i)
    \/ \E i \in UserIds : UserGetDetail(session, i)
    \/ \E r \in {"GET /auth/profile", "POST /users", "PUT /users/:id",
                 "DELETE /users/:id", "GET /users/:id"} : Abort(r, session)
    \/ Tick

Spec == Init /\ [][Next]_vars

-----------------------------------------------------------------------------
(* The role and permission services called directly.                       *)

CallCreateRole(name, code) ==
    LET r == CreateRole(name, code)
    IN  /\ nextRoleId <= MaxRoleId
        /\ resp' = Returned("RoleService.CreateRole",
                            [NoBody EXCEPT !.name = name, !.code = code], r.err)
        /\ roles' = r.tbl
        /\ nextRoleId' = IF r.err = "" THEN nextRoleId + 1 ELSE nextRoleId
        /\ UNCHANGED <<users, nextUserId, perms, nextPermId, rolePerms, now, session, browser, calls>>

CallUpdateRole(id, name, code) ==
    LET r == UpdateRole(id, [name |-> name, code |-> code])
    IN  /\ resp' = Returned("RoleService.UpdateRole",
                            [NoBody EXCEPT !.id = id, !.name = name, !.code = code], r.err)
        /\ roles' = r.tbl
        /\ UNCHANGED <<users, nextUserId, nextRoleId, perms, nextPermId, rolePerms,
                       now, session, browser, calls>>

CallDeleteRole(id) ==
    LET r == DeleteRole(id)
    IN  /\ resp' = Returned("RoleService.DeleteRole", [NoBody EXCEPT !.id = id], r.err)
        /\ roles' = r.tbl
        /\ rolePerms' = r.rp
        /\ UNCHANGED <<users, nextUserId, nextRoleId, perms, nextPermId, now, session, browser, calls>>

CallCreatePermission(row) ==
    LET r == CreatePermission(row)
    IN  /\ nextPermId <= NumDefaultPermissions + MaxNewPerms
        /\ resp' = Returned("PermissionService.CreatePermission",
                            [NoBody EXCEPT !.code = row.code], r.err)
        /\ perms' = r.tbl
        /\ nextPermId' = IF r.err = "" THEN nextPermId + 1 ELSE nextPermId
        /\ UNCHANGED <<users, nextUserId, roles, nextRoleId, rolePerms, now, session, browser, calls>>

CallUpdatePermission(id, row) ==
    LET r == UpdatePermission(id, row)
    IN  /\ resp' = Returned("PermissionService.UpdatePermission",
                            [NoBody EXCEPT !.id = id, !.code = row.code], r.err)
        /\ perms' = r.tbl
        /\ UNCHANGED <<users, nextUserId, roles, nextRoleId, nextPermId, rolePerms,
                       now, session, browser, calls>>

CallDeletePermission(id, fail) ==
    LET r == DeletePermission(id, fail)
    IN  /\ resp' = Returned("PermissionService.DeletePermission",
                            [NoBody EXCEPT !.id = id], r.err)
        /\ perms' = r.tbl
        /\ rolePerms' = r.rp
        /\ UNCHANGED <<users, nextUserId, roles, nextRoleId, nextPermId, now, session, browser, calls>>

CallAssignPermissionsToRole(roleID, permissionIDs, fail) ==
    LET r == AssignPermissionsToRole(roleID, permissionIDs, fail)
    IN  /\ resp' = Returned("PermissionService.AssignPermissionsToRole",
                            [NoBody EXCEPT !.id = roleID,
                                           !.permission_ids = permissionIDs], r.err)
        /\ rolePerms' = r.rp
        /\ UNCHANGED <<users, nextUserId, roles, nextRoleId, perms, nextPermId,
                       now, session, browser, calls>>

CallGetPermissionTrees ==
    /\ resp' = [Returned("PermissionService.GetPermissionTrees", NoBody, "")
                  EXCEPT !.tree = GetPermissionTrees]
    /\ UNCHANGED <<db, now, session, browser, calls>>

(* The database once every seeded permission has been deleted *)
InitNoPermissions ==
    /\ users = DefaultUsers
    /\ nextUserId = 2
    /\ roles = DefaultRoles
    /\ nextRoleId = 3
    /\ perms = <<>>
    /\ nextPermId = NumDefaultPermissions + 1
    /\ rolePerms = {}
    /\ now = 0
    /\ session = NoToken
    /\ resp = NoResponse
    /\ browser = PageLoad(NoStoredToken, "/login")
    /\ calls = NoCalls

RoleIds == 1..MaxRoleId
PermIds == (NumDefaultPermissions + 1)..(NumDefaultPermissions + MaxNewPerms)
HeldPermIds == (NumDefaultPermissions + 1)..(NumDefaultPermissions + MaxHeldPerms)
DbFailures == {"", "begin", "first", "clear", "delete", "commit"}
AssignFailures == {"", "first", "clear", "find", "append"}

(* Roles, permissions and their associations *)
NextRbac ==
    \/ \E i \in RoleIds : CallDeleteRole(i)
    \/ \E c \in {"a", "b"} :
          /\ nextPermId \in HeldPermIds
          /\ CallCreatePermission(PermRow(c, "", 1, 0))
    \/ \E i \in HeldPermIds, f \in DbFailures : CallDeletePermission(i, f)
    \/ \E i \in RoleIds, ids \in SUBSET HeldPermIds, f \in AssignFailures :
          CallAssignPermissionsToRole(i, ids, f)

SpecRbac == InitNoPermissions /\ [][NextRbac]_vars

(* The permission table and the forest built from it *)
ParentCodes == Codes \cup {""}
Types == {1, 2}
Sorts == {0, 1}

NextTree ==
    \/ \E c \in Codes, pc \in ParentCodes, t \in Types, o \in Sorts :
          CallCreatePermission(PermRow(c, pc, t, o))
    \/ \E i \in PermIds : CallDeletePermission(i, "")
    \/ CallGetPermissionTrees

SpecTree == InitNoPermissions /\ [][NextTree]_vars

(* The same server, every registered route served, with few request bodies *)
NextRoutes ==
    \/ \E p \in Passwords : Login("admin", p)
    \/ \E t \in Bearers : Logout(t)
    \/ \E t \in Bearers : GetProfile(t)
    \/ \E t \in Bearers : UserGetList(t, 1, 1)
    \/ \E t \in Bearers : UserGetDetail(t, 1)
    \/ \E t \in Bearers : UserCreate(t, "bob", "pw2")
    \/ \E t \in Bearers : UserUpdate(t, 1, "", Status(0))
    \/ \E t \in Bearers : UserDelete(t, 2)
    \/ \E t \in Bearers : RoleGetList(t, 1, 1)
    \/ \E t \in Bearers : RoleGetDetail(t, 1)
    \/ \E t \in Bearers : RoleCreate(t, "ops", "ops")
    \/ \E t \in Bearers : RoleUpdate(t, 2, "guest", "")
    \/ \E t \in Bearers : RoleDelete(t, 1)
    \/ \E t \in Bearers, r \in DOMAIN RegisterRoutes : Abort(r, t)
    \/ Tick

SpecRoutes == Init /\ [][NextRoutes]_vars

-----------------------------------------------------------------------------
(* C1: in every reachable state no two user rows have the same username,   *)
(* whatever users were created, renamed or deleted.                         *)
C1_UsernamesUnique ==
    \A i, j \in DOMAIN users : i # j => users[i].username # users[j].username

(* an update that asked for a new username has run while two users exist *)
C1_Witness ==
    /\ Cardinality(DOMAIN users) = 2
    /\ resp.route = "PUT /users/:id" /\ resp.reached
    /\ resp.req.username # ""
    /\ \E i \in DOMAIN users : i # resp.req.id /\ users[i].username = resp.req.username

(* C2: CreateUser with the username of an existing user returns the error  *)
(* "username exists", adds no row and changes no row.                       *)
C2_DuplicateCreateRejected ==
    [][\A u \in Usernames, p \in Passwords :
          (UserCreate(session, u, p) /\ UsernameTaken(users, u, 0))
             => /\ resp'.code = CodeError
                /\ resp'.msg = MsgUsernameExists
                /\ users' = users
                /\ nextUserId' = nextUserId]_vars

C2_Witness ==
    /\ resp.route = "POST /users" /\ resp.reached
    /\ resp.msg = MsgUsernameExists
    /\ UsernameTaken(users, resp.req.username, 0)

(* C3: Login answers with a success envelope carrying a token and the      *)
(* user's id and username exactly when a user of that username exists and  *)
(* the stored hash is the hash of the password given; otherwise it answers *)
(* with an error envelope and no token.                                     *)
C3_LoginIffCredentials ==
    resp.route = "POST /auth/login" =>
        LET match == {i \in DOMAIN users :
                        /\ users[i].username = resp.req.username
                        /\ users[i].password = GenerateFromPassword(resp.req.password)}
        IN  IF match # {}
            THEN /\ resp.code = CodeSuccess
                 /\ resp.token # NoToken
                 /\ resp.id \in match
                 /\ resp.token.uid = resp.id
                 /\ resp.token.username = resp.req.username
            ELSE /\ resp.code # CodeSuccess
                 /\ resp.token = NoToken

(* a user created through the API has logged in, and a wrong password has  *)
(* been turned down                                                         *)
C3_Witness ==
    /\ resp.route = "POST /auth/login"
    /\ resp.code = CodeSuccess
    /\ resp.req.username = "bob"

(* C4 as claimed: no route other than POST /auth/login lets a request      *)
(* without a valid bearer token reach its handler.                          *)
C4_AllButLoginGuarded ==
    (resp.route \in DOMAIN RegisterRoutes \ {"POST /auth/login"} /\ ~resp.auth)
        => ~resp.reached

(* C4, amended: no route other than POST /auth/login and POST /auth/logout *)
(* lets a request without a valid bearer token reach its handler.           *)
C4_AllButLoginLogoutGuarded ==
    (resp.route \in DOMAIN RegisterRoutes \ {"POST /auth/login", "POST /auth/logout"}
        /\ ~resp.auth)
        => ~resp.reached

(* a role route turned a request with an expired token away *)
C4_Witness ==
    /\ resp.route = "DELETE /roles/:id"
    /\ ~resp.auth /\ ~resp.reached
    /\ session # NoToken

(* C5: a Logout step leaves users, roles, permissions and associations as  *)
(* they were, and every token accepted before it is accepted after it.      *)
C5_LogoutChangesNothing ==
    [][Logout(session)
          => /\ UNCHANGED <<users, roles, perms, rolePerms>>
             /\ \A k \in {session, ForgedToken, NoToken} :
                   AuthMiddleware(k) <=> AuthMiddleware(k)']_vars

(* a logout was served while the client held a token that is still valid *)
C5_Witness ==
    /\ resp.route = "POST /auth/logout" /\ resp.reached
    /\ session # NoToken /\ AuthMiddleware(session)

(* C6 as claimed: once DeleteRole(id) has returned nil, no row of           *)
(* role_permissions names role id, and the permissions table is as before.  *)
C6_DeleteRoleClearsAssociations ==
    [][\A id \in RoleIds :
          (CallDeleteRole(id) /\ resp'.msg = "")
             => /\ \A x \in rolePerms' : x[1] # id
                /\ perms' = perms]_vars

(* C7: DeletePermission(id) either returns nil, and then the row and every *)
(* join row of it are gone and nothing else changed, or returns an error    *)
(* (always so when a call fails or the id is unknown), and then permissions *)
(* and join rows are as before.                                             *)
C7_DeletePermissionAtomic ==
    [][\A id \in HeldPermIds, f \in DbFailures :
          (id = resp'.req.id /\ CallDeletePermission(id, f))
             => /\ (f # "" \/ id \notin DOMAIN perms) => resp'.msg # ""
                /\ IF resp'.msg = ""
                   THEN /\ id \in DOMAIN perms
                        /\ perms' = [i \in DOMAIN perms \ {id} |-> perms[i]]
                        /\ rolePerms' = {x \in rolePerms : x[2] # id}
                        /\ roles' = roles
                   ELSE /\ perms' = perms
                        /\ rolePerms' = rolePerms
                        /\ roles' = roles]_vars

(* a deletion failed on a permission that roles hold, and another succeeded *)
C7_Witness ==
    /\ resp.route = "PermissionService.DeletePermission"
    /\ resp.msg = MsgDbError
    /\ resp.req.id \in DOMAIN perms
    /\ \E x \in rolePerms : x[2] = resp.req.id
    /\ \E x \in rolePerms : x[2] # resp.req.id

-----------------------------------------------------------------------------
(* The forest a GetPermissionTrees response carries *)

Range(s) == {s[k] : k \in 1..Len(s)}

Occurrences(s, c) == Cardinality({k \in 1..Len(s) : s[k] = c})

RECURSIVE ReachFrom(_, _, _)
ReachFrom(nodes, frontier, seen) ==
    IF frontier \subseteq seen THEN seen
    ELSE LET new == frontier \ seen
         IN ReachFrom(nodes,
                      UNION {Range(nodes[c].Children) : c \in new},
                      seen \cup new)

(* the codes of the nodes of the forest: those the roots lead to *)
InForest(tree) == ReachFrom(tree.nodes, Range(tree.roots), {})

RECURSIVE SumOccurrences(_, _, _)
SumOccurrences(tree, S, c) ==
    IF S = {} THEN 0
    ELSE LET n == CHOOSE x \in S : TRUE
         IN Occurrences(tree.nodes[n].Children, c) + SumOccurrences(tree, S \ {n}, c)

(* how often the node of code c appears in the forest *)
ForestOccurrences(tree, c) ==
    Occurrences(tree.roots, c) + SumOccurrences(tree, InForest(tree), c)

IsOrphan(i) ==
    perms[i].parent_code # "" /\ ~PermCodeTaken(perms, perms[i].parent_code, 0)

HasParent(i) ==
    perms[i].parent_code # "" /\ PermCodeTaken(perms, perms[i].parent_code, 0)

TreeReturned == resp.route = "PermissionService.GetPermissionTrees"

(* C8 as claimed: a permission whose parent_code is the code of no          *)
(* permission is a root of the forest returned.                             *)
C8_OrphanIsRoot ==
    TreeReturned =>
        \A i \in DOMAIN perms : IsOrphan(i) => perms[i].code \in Range(resp.tree.roots)

FlagsMatchChildren(tree) ==
    \A c \in DOMAIN tree.nodes :
        tree.nodes[c].HasChildren <=> Len(tree.nodes[c].Children) > 0

(* C9 as claimed: in the forest returned every permission with an empty    *)
(* parent_code is a root, every permission whose parent_code is the code of *)
(* a permission appears exactly once, as a child of that permission's node, *)
(* and has_children tells whether the children list is non-empty.           *)
C9_NestedExactlyOnce ==
    TreeReturned =>
        LET tree == resp.tree
        IN  /\ \A i \in DOMAIN perms :
                  perms[i].parent_code = "" => perms[i].code \in Range(tree.roots)
            /\ \A i \in DOMAIN perms :
                  HasParent(i) =>
                     /\ ForestOccurrences(tree, perms[i].code) = 1
                     /\ perms[i].parent_code \in InForest(tree)
                     /\ Occurrences(tree.nodes[perms[i].parent_code].Children,
                                    perms[i].code) = 1
            /\ FlagsMatchChildren(tree)

(* C9, amended: every permission with an empty parent_code is a root, once; *)
(* every permission whose parent_code is the code of a permission is held   *)
(* exactly once by the children list of that permission's node, by no other *)
(* children list and not by the roots, so that it appears in the forest     *)
(* returned once when its parent does and not at all when its parent does   *)
(* not; has_children tells whether the children list is non-empty.          *)
C9_LinkedExactlyOnce ==
    TreeReturned =>
        LET tree == resp.tree
        IN  /\ \A i \in DOMAIN perms :
                  perms[i].parent_code = "" =>
                     /\ Occurrences(tree.roots, perms[i].code) = 1
                     /\ \A n \in DOMAIN tree.nodes :
                           Occurrences(tree.nodes[n].Children, perms[i].code) = 0
            /\ \A i \in DOMAIN perms :
                  HasParent(i) =>
                     /\ Occurrences(tree.roots, perms[i].code) = 0
                     /\ \A n \in DOMAIN tree.nodes :
                           Occurrences(tree.nodes[n].Children, perms[i].code)
                              = IF n = perms[i].parent_code THEN 1 ELSE 0
                     /\ ForestOccurrences(tree, perms[i].code)
                           = IF perms[i].parent_code \in InForest(tree) THEN 1 ELSE 0
            /\ FlagsMatchChildren(tree)

(* a forest with a root that has a child that has a child, beside a         *)
(* permission that names itself as parent                                   *)
C9_Witness ==
    /\ TreeReturned
    /\ \E i, j \in DOMAIN perms :
          /\ perms[i].parent_code = ""
          /\ perms[j].parent_code = perms[i].code
          /\ resp.tree.nodes[perms[i].code].HasChildren
          /\ perms[j].code \in InForest(resp.tree)
    /\ \E k \in DOMAIN perms : perms[k].parent_code = perms[k].code

KeyLeq(nodes, a, b) ==
    \/ nodes[a].Type < nodes[b].Type
    \/ nodes[a].Type = nodes[b].Type /\ nodes[a].Sort <= nodes[b].Sort

Ordered(nodes, s) == \A k \in 1..(Len(s) - 1) : KeyLeq(nodes, s[k], s[k + 1])

(* C10: in the forest returned the roots and the children of every node    *)
(* are in non-decreasing order of (type, sort), type compared first.        *)
C10_SiblingsOrdered ==
    TreeReturned =>
        /\ Ordered(resp.tree.nodes, resp.tree.roots)
        /\ \A c \in InForest(resp.tree) :
              Ordered(resp.tree.nodes, resp.tree.nodes[c].Children)

(* a node of the forest has two children that differ in sort, created in   *)
(* descending order                                                         *)
C10_Witness ==
    /\ TreeReturned
    /\ \E c \in InForest(resp.tree) :
          LET ch == resp.tree.nodes[c].Children
          IN  /\ Len(ch) = 2
              /\ resp.tree.nodes[ch[1]].Type = resp.tree.nodes[ch[2]].Type
              /\ resp.tree.nodes[ch[1]].Sort < resp.tree.nodes[ch[2]].Sort
              /\ resp.tree.nodes[ch[1]].ID > resp.tree.nodes[ch[2]].ID

SameKey(nodes, a, b) ==
    nodes[a].Type = nodes[b].Type /\ nodes[a].Sort = nodes[b].Sort

InputOrderKept(nodes, s) ==
    \A k \in 1..(Len(s) - 1) :
        SameKey(nodes, s[k], s[k + 1]) => nodes[s[k]].ID < nodes[s[k + 1]].ID

(* C11: in the forest returned, roots and children of equal (type, sort)   *)
(* stand in ascending id, the order of the input list, and sorting the      *)
(* roots and every children list again by (type, sort) moves nothing.       *)
C11_StableUnderResort ==
    TreeReturned =>
        LET tree == resp.tree
            again == SortSlice(tree.nodes, tree.roots)
        IN  /\ InputOrderKept(tree.nodes, tree.roots)
            /\ \A c \in DOMAIN tree.nodes :
                  InputOrderKept(tree.nodes, tree.nodes[c].Children)
            /\ again = tree.roots
            /\ sortChildren(tree.nodes, again, 1) = tree.nodes
            /\ \A c \in DOMAIN tree.nodes :
                  SortSlice(tree.nodes, tree.nodes[c].Children) = tree.nodes[c].Children

(* a sibling list of the forest holds two nodes of equal (type, sort) and  *)
(* is not in ascending id as a whole                                        *)
C11_Witness ==
    /\ TreeReturned
    /\ \E s \in {resp.tree.roots} \cup
                {resp.tree.nodes[c].Children : c \in InForest(resp.tree)} :
          /\ \E k \in 1..(Len(s) - 1) : SameKey(resp.tree.nodes, s[k], s[k + 1])
          /\ \E k \in 1..(Len(s) - 1) :
                resp.tree.nodes[s[k]].ID > resp.tree.nodes[s[k + 1]].ID

-----------------------------------------------------------------------------
(* The list routes, served to a logged-in client while users and roles are  *)
(* created and deleted.                                                     *)

Pages == 1..MaxPage
PageSizes == 1..MaxPageSize

NextLists ==
    \/ Login("admin", "admin123")
    \/ \E u \in Usernames : UserCreate(session, u, "pw2")
    \/ \E i \in UserIds : UserDelete(session, i)
    \/ \E c \in {"ops", "user"} : RoleCreate(session, c, c)
    \/ \E i \in RoleIds : RoleDelete(session, i)
    \/ \E p \in Pages, n \in PageSizes : UserGetList(session, p, n)
    \/ \E p \in Pages, n \in PageSizes : RoleGetList(session, p, n)

SpecLists == Init /\ [][NextLists]_vars

(* the ids of tbl below id: one less than the position of row id *)
RowsBefore(tbl, id) == Cardinality({j \in DOMAIN tbl : j < id})

PageOf(tbl, r) ==
    LET page == r.req.page
        pageSize == r.req.pageSize
        first == (page - 1) * pageSize + 1
        last == page * pageSize
        rows == Cardinality(DOMAIN tbl)
    IN  (page >= 1 /\ pageSize >= 1) =>
           /\ r.code = CodeSuccess
           /\ r.total = rows
           /\ Len(r.list) <= pageSize
           /\ Len(r.list) = IF rows < first THEN 0
                            ELSE IF rows < last THEN rows - first + 1
                            ELSE pageSize
           /\ \A k \in 1..Len(r.list) :
                 /\ r.list[k] \in DOMAIN tbl
                 /\ RowsBefore(tbl, r.list[k]) + 1 = first + k - 1

(* C12: a list response for page >= 1 and pageSize >= 1 carries the rows at *)
(* positions (page-1)*pageSize+1 .. page*pageSize of the table, fewer on    *)
(* the last page, none beyond it, never more than pageSize, and as total    *)
(* the number of rows of the whole table.                                   *)
C12_PageAndTotal ==
    /\ (resp.route = "GET /users" /\ resp.reached) => PageOf(users, resp)
    /\ (resp.route = "GET /roles" /\ resp.reached) => PageOf(roles, resp)

(* the second page of one row was asked of a roles table holding ids 1 and *)
(* 3, and the row of id 3 came back with total 2                            *)
C12_Witness ==
    /\ resp.route = "GET /roles" /\ resp.reached
    /\ resp.req.page = 2 /\ resp.req.pageSize = 1
    /\ DOMAIN roles = {1, 3}
    /\ resp.list = <<3>> /\ resp.total = 2

-----------------------------------------------------------------------------
(* The role service called directly: any sequence of CreateRole, UpdateRole *)
(* and DeleteRole on the seeded database.                                   *)

RoleNames == {"guest"}
RoleCodeInputs == RoleCodes \cup {"ops"}

NextRoles ==
    \/ \E n \in RoleNames, c \in RoleCodeInputs : CallCreateRole(n, c)
    \/ \E i \in RoleIds, c \in RoleCodeInputs \cup {""} : CallUpdateRole(i, "", c)
    \/ \E i \in RoleIds : CallDeleteRole(i)

SpecRoles == Init /\ [][NextRoles]_vars

RoleCodesDistinct ==
    \A i, j \in DOMAIN roles : i # j => roles[i].code # roles[j].code

(* C13: no two roles ever share a code; a CreateRole step with a code that *)
(* a role holds returns "role code exists" and adds no row; an UpdateRole   *)
(* step that sets the code of another role changes no row.                  *)
C13_RoleCodesUnique ==
    /\ []RoleCodesDistinct
    /\ [][\A n \in RoleNames, c \in RoleCodeInputs :
             (CallCreateRole(n, c) /\ RoleCodeTaken(roles, c, 0))
                => /\ resp'.msg = MsgRoleCodeExists
                   /\ roles' = roles
                   /\ nextRoleId' = nextRoleId]_vars
    /\ [][\A i \in RoleIds, c \in RoleCodeInputs :
             (CallUpdateRole(i, "", c) /\ i \in DOMAIN roles /\ RoleCodeTaken(roles, c, i))
                => roles' = roles]_vars

(* an UpdateRole asked for the code of another role while three roles      *)
(* exist, one of them created and one given a new code                      *)
C13_Witness ==
    /\ resp.route = "RoleService.UpdateRole"
    /\ resp.req.id \in DOMAIN roles
    /\ resp.req.code # ""
    /\ RoleCodeTaken(roles, resp.req.code, resp.req.id)
    /\ Cardinality(DOMAIN roles) = 3
    /\ \E i \in DOMAIN roles : roles[i].code = "ops" /\ roles[i].name # "guest"

-----------------------------------------------------------------------------
(* The permission service called directly: any sequence of                  *)
(* CreatePermission, UpdatePermission and DeletePermission.                 *)

NextPerms ==
    \/ \E c \in Codes : CallCreatePermission(PermRow(c, "", 1, 0))
    \/ \E i \in PermIds, c \in Codes, o \in Sorts :
          CallUpdatePermission(i, PermRow(c, "", 1, o))
    \/ \E i \in PermIds : CallDeletePermission(i, "")

SpecPerms == InitNoPermissions /\ [][NextPerms]_vars

PermCodesDistinct ==
    \A i, j \in DOMAIN perms : i # j => perms[i].code # perms[j].code

(* C14: no two permissions ever share a code; a CreatePermission step with *)
(* a code that a permission holds, and an UpdatePermission step that       *)
(* changes the code to one another permission holds, return an error and   *)
(* leave the table as it was; an UpdatePermission step that keeps the      *)
(* permission's code returns nil and writes the row.                        *)
C14_PermCodesUnique ==
    /\ []PermCodesDistinct
    /\ [][\A c \in Codes :
             (CallCreatePermission(PermRow(c, "", 1, 0)) /\ PermCodeTaken(perms, c, 0))
                => /\ resp'.msg # ""
                   /\ perms' = perms
                   /\ nextPermId' = nextPermId]_vars
    /\ [][\A i \in PermIds, c \in Codes, o \in Sorts :
             (CallUpdatePermission(i, PermRow(c, "", 1, o)) /\ i \in DOMAIN perms)
                => /\ (c # perms[i].code /\ PermCodeTaken(perms, c, i))
                         => (resp'.msg # "" /\ perms' = perms)
                   /\ c = perms[i].code
                         => /\ resp'.msg = ""
                            /\ perms' = [perms EXCEPT ![i] = PermRow(c, "", 1, o)]]_vars

(* an UpdatePermission asked for the code of another permission and was    *)
(* turned down, after an update that kept its code changed a sort           *)
C14_Witness ==
    /\ resp.route = "PermissionService.UpdatePermission"
    /\ resp.req.id \in DOMAIN perms
    /\ resp.req.code # perms[resp.req.id].code
    /\ PermCodeTaken(perms, resp.req.code, resp.req.id)
    /\ resp.msg = MsgPermCodeExists
    /\ \E i \in DOMAIN perms : perms[i].sort = 1

-----------------------------------------------------------------------------
(* models.InitDB as a step: the server starts on whatever database file it *)
(* finds.  AutoMigrate changes no row.  initDefaultData ignores the error   *)
(* of every statement it runs.                                              *)

(* DB.Model(&User{}).Count(&count); count > 0 returns *)
SeedNeededWhenNoRoles == DOMAIN roles = {}

SeedNeeded == DOMAIN users = {}

(* DB.Create(&roles), DB.Create(&permissions): one INSERT of all the rows, *)
(* which the unique index on code fails as a whole.                         *)
CreateInBatches(tbl, next, rows) ==
    IF \E k \in DOMAIN rows : \E i \in DOMAIN tbl : tbl[i].code = rows[k].code
    THEN [err |-> MsgUniqueViolation, tbl |-> tbl, ids |-> {}]
    ELSE [err |-> "",
          tbl |-> [i \in DOMAIN tbl \cup {next + k - 1 : k \in DOMAIN rows} |->
                     IF i \in DOMAIN tbl THEN tbl[i] ELSE rows[i - next + 1]],
          ids |-> {next + k - 1 : k \in DOMAIN rows}]

(* Where("code = ?", "admin").First(&adminRole): its id, 0 when not found *)
FirstRoleByCode(tbl, code) ==
    IF \E i \in DOMAIN tbl : tbl[i].code = code
    THEN CHOOSE i \in DOMAIN tbl : tbl[i].code = code
    ELSE 0

(* Association("Permissions").Append(permissions): a join row per          *)
(* permission.  When the INSERT of the permissions failed the slice holds   *)
(* no ids; what Append then writes depends on the GORM release (nothing, or *)
(* a join row to id 0), and either is allowed.                              *)
AppendPermissions(roleID, ids) ==
    IF roleID = 0 THEN {rolePerms}
    ELSE IF ids # {} THEN {rolePerms \cup {<<roleID, i>> : i \in ids}}
    ELSE {rolePerms, rolePerms \cup {<<roleID, 0>>}}

InitDB ==
    LET admin == InsertUser(UserRow("admin", GenerateFromPassword("admin123"), 1))
        rs == CreateInBatches(roles, nextRoleId, DefaultRoles)
        ps == CreateInBatches(perms, nextPermId, DefaultPermissions)
        adminRole == FirstRoleByCode(rs.tbl, "admin")
    IN  /\ resp' = Returned("InitDB", NoBody, "")
        /\ IF ~SeedNeeded
           THEN UNCHANGED db
           ELSE /\ nextUserId <= MaxUserId
                /\ nextRoleId <= MaxRoleId
                /\ users' = admin.tbl
                /\ nextUserId' = IF admin.err = "" THEN nextUserId + 1 ELSE nextUserId
                /\ roles' = rs.tbl
                /\ nextRoleId' = nextRoleId + Cardinality(rs.ids)
                /\ perms' = ps.tbl
                /\ nextPermId' = nextPermId + Cardinality(ps.ids)
                /\ rolePerms' \in AppendPermissions(adminRole, ps.ids)
        /\ UNCHANGED <<now, session, browser, calls>>

(* A database file that does not exist yet *)
EmptyDatabase ==
    /\ DOMAIN users = {} /\ nextUserId = 1
    /\ DOMAIN roles = {} /\ nextRoleId = 1
    /\ DOMAIN perms = {} /\ nextPermId = 1
    /\ rolePerms = {}

InitEmpty ==
    /\ users = <<>> /\ nextUserId = 1
    /\ roles = <<>> /\ nextRoleId = 1
    /\ perms = <<>> /\ nextPermId = 1
    /\ rolePerms = {}
    /\ now = 0
    /\ session = NoToken
    /\ resp = NoResponse
    /\ browser = PageLoad(NoStoredToken, "/login")
    /\ calls = NoCalls

(* The server started, stopped and started again between requests *)
NextBoot ==
    \/ InitDB
    \/ \E p \in Passwords : Login("admin", p)
    \/ UserCreate(session, "bob", "pw2")
    \/ \E i \in UserIds : UserDelete(session, i)
    \/ \E c \in {"admin", "ops"} : RoleCreate(session, "ops", c)
    \/ \E i \in RoleIds : RoleDelete(session, i)

SpecBoot == InitEmpty /\ [][NextBoot]_vars

(* C15: an InitDB step on the empty database leaves the user admin with    *)
(* password admin123, the roles admin and user, the 15 default permissions *)
(* and a join row from the admin role to each of them; an InitDB step on a *)
(* database holding a user changes no table; after any InitDB step a user   *)
(* exists, so that a second InitDB changes nothing.                         *)
C15_SeedsOnlyWhenEmpty ==
    [][InitDB =>
          /\ EmptyDatabase =>
                /\ initDefaultData'
                /\ \E u \in DOMAIN users' :
                      /\ users'[u].username = "admin"
                      /\ CompareHashAndPassword(users'[u].password, "admin123")
                /\ {roles'[r].code : r \in DOMAIN roles'} = {"admin", "user"}
                /\ Cardinality(DOMAIN perms') = NumDefaultPermissions
                /\ \A r \in DOMAIN roles' :
                      {i \in DOMAIN perms' : <<r, i>> \in rolePerms'}
                         = IF roles'[r].code = "admin" THEN DOMAIN perms' ELSE {}
          /\ DOMAIN users # {} => UNCHANGED db
          /\ DOMAIN users' # {}]_vars

(* InitDB ran on a database holding users but no role *)
C15_Witness ==
    /\ resp.route = "InitDB"
    /\ Cardinality(DOMAIN users) = 2
    /\ DOMAIN roles = {}
    /\ DOMAIN perms # {}

-----------------------------------------------------------------------------
(* PermissionService.CheckPermission: Preload("Role.Permissions") loads the *)
(* role the user's role_id names (none when it is null or names no row)     *)
(* and the permissions the role's join rows lead to.                        *)
CheckPermission(userID, permissionCode) ==
    IF userID \notin DOMAIN users THEN FALSE
    ELSE IF users[userID].role_id \notin DOMAIN roles THEN FALSE
    ELSE \E i \in DOMAIN perms :
            /\ <<users[userID].role_id, i>> \in rolePerms
            /\ perms[i].code = permissionCode

(* C16 as claimed: once InitDB has seeded the empty database, the role_id   *)
(* of the user admin is the id of the role of code admin, and               *)
(* CheckPermission grants that user every seeded permission.                *)
C16_AdminHoldsAdminRole ==
    (resp.route = "InitDB" /\ initDefaultData) =>
        \A u \in DOMAIN users :
            users[u].username = "admin" =>
               /\ users[u].role_id = FirstRoleByCode(roles, "admin")
               /\ \A i \in DOMAIN perms : CheckPermission(u, perms[i].code)

-----------------------------------------------------------------------------
(* The update routes, served to a logged-in client.                        *)

NextUpdates ==
    \/ Login("admin", "admin123")
    \/ UserCreate(session, "bob", "pw2")
    \/ \E i \in UserIds, u \in Usernames \cup {"", "carol"}, st \in StatusInputs :
          UserUpdate(session, i, u, st)
    \/ \E i \in RoleIds, n \in {"", "guest"}, c \in {"", "ops", "admin"} :
          RoleUpdate(session, i, n, c)

SpecUpdates == Init /\ [][NextUpdates]_vars

(* what an update may touch: of the users table only row i, of it only     *)
(* username and status and only when the request carries them; nothing of  *)
(* the other tables                                                         *)
UserFrame(i, u, st) ==
    /\ DOMAIN users' = DOMAIN users
    /\ \A j \in DOMAIN users : j # i => users'[j] = users[j]
    /\ i \in DOMAIN users =>
          /\ users'[i].password = users[i].password
          /\ users'[i].role_id = users[i].role_id
          /\ users'[i].username \in {users[i].username, u}
          /\ u = "" => users'[i].username = users[i].username
          /\ st = NoStatus => users'[i].status = users[i].status
          /\ st # NoStatus => users'[i].status \in {users[i].status, st[1]}
    /\ UNCHANGED <<roles, perms, rolePerms>>

RoleFrame(i, n, c) ==
    /\ DOMAIN roles' = DOMAIN roles
    /\ \A j \in DOMAIN roles : j # i => roles'[j] = roles[j]
    /\ i \in DOMAIN roles =>
          /\ roles'[i].name \in {roles[i].name, n}
          /\ n = "" => roles'[i].name = roles[i].name
          /\ roles'[i].code \in {roles[i].code, c}
          /\ c = "" => roles'[i].code = roles[i].code
    /\ UNCHANGED <<users, perms, rolePerms>>

UserFieldsSet(i, u, st) ==
    /\ u # "" => users'[i].username = u
    /\ st # NoStatus => users'[i].status = st[1]

RoleFieldsSet(i, n, c) ==
    /\ n # "" => roles'[i].name = n
    /\ c # "" => roles'[i].code = c

(* the request a step served, read off the response it left *)
UserUpdateStep(i, u, st) ==
    /\ i = resp'.req.id /\ u = resp'.req.username /\ st = resp'.req.status
    /\ UserUpdate(session, i, u, st)

RoleUpdateStep(i, n, c) ==
    /\ i = resp'.req.id /\ n = resp'.req.name /\ c = resp'.req.code
    /\ RoleUpdate(session, i, n, c)

(* C17 as claimed: an Update step changes only the fields its request      *)
(* carries, of the row it names, and every request that carries a field     *)
(* sets it: one with status = 0 sets the user's status to 0.                *)
C17_UpdateSetsPresentFields ==
    [][LET i == resp'.req.id
       IN  /\ UserUpdateStep(i, resp'.req.username, resp'.req.status) =>
                /\ UserFrame(i, resp'.req.username, resp'.req.status)
                /\ i \in DOMAIN users
                      => UserFieldsSet(i, resp'.req.username, resp'.req.status)
           /\ RoleUpdateStep(i, resp'.req.name, resp'.req.code) =>
                /\ RoleFrame(i, resp'.req.name, resp'.req.code)
                /\ i \in DOMAIN roles
                      => RoleFieldsSet(i, resp'.req.name, resp'.req.code)]_vars

(* C17, amended: an Update step changes only the fields its request        *)
(* carries, of the row it names; when it answers with code 200 and the row  *)
(* exists every field carried is set, status = 0 included; when it answers  *)
(* with an error (the username or code is held by another row) no field is  *)
(* set.                                                                     *)
C17_AcceptedUpdateSetsPresentFields ==
    [][LET i == resp'.req.id
       IN  /\ UserUpdateStep(i, resp'.req.username, resp'.req.status) =>
                /\ UserFrame(i, resp'.req.username, resp'.req.status)
                /\ (resp'.code = CodeSuccess /\ i \in DOMAIN users)
                      => UserFieldsSet(i, resp'.req.username, resp'.req.status)
                /\ resp'.code # CodeSuccess
                      => (users' = users /\ UsernameTaken(users, resp'.req.username, i))
           /\ RoleUpdateStep(i, resp'.req.name, resp'.req.code) =>
                /\ RoleFrame(i, resp'.req.name, resp'.req.code)
                /\ (resp'.code = CodeSuccess /\ i \in DOMAIN roles)
                      => RoleFieldsSet(i, resp'.req.name, resp'.req.code)
                /\ resp'.code # CodeSuccess
                      => (roles' = roles /\ RoleCodeTaken(roles, resp'.req.code, i))]_vars

(* an accepted request carrying only status = 0 was served for the second  *)
(* of two users while the first keeps status 1                              *)
C17_Witness ==
    /\ resp.route = "PUT /users/:id" /\ resp.code = CodeSuccess
    /\ resp.req.status = Status(0) /\ resp.req.username = ""
    /\ resp.req.id = 2 /\ 2 \in DOMAIN users
    /\ users[2].status = 0 /\ users[2].username = "bob"
    /\ users[1].status = 1

-----------------------------------------------------------------------------
(* The routes that address one row, served to a logged-in client.          *)

NextRows ==
    \/ Login("admin", "admin123")
    \/ UserCreate(session, "bob", "pw2")
    \/ \E i \in UserIds : UserGetDetail(session, i)
    \/ \E i \in UserIds, st \in StatusInputs : UserUpdate(session, i, "", st)
    \/ \E i \in UserIds : UserDelete(session, i)
    \/ \E i \in RoleIds : RoleGetDetail(session, i)
    \/ \E i \in RoleIds, n \in {"", "guest"} : RoleUpdate(session, i, n, "")
    \/ \E i \in RoleIds : RoleDelete(session, i)

SpecRows == Init /\ [][NextRows]_vars

(* C18 as claimed: a GetDetail, Update or Delete step for a user id or     *)
(* role id that names no row answers with an envelope whose code is not     *)
(* 200, and changes no row.                                                 *)
C18_NotFoundIsError ==
    [][LET i == resp'.req.id
       IN  /\ ((\/ UserGetDetail(session, i)
                \/ UserUpdate(session, i, resp'.req.username, resp'.req.status)
                \/ UserDelete(session, i))
               /\ i \notin DOMAIN users)
                 => (resp'.code # CodeSuccess /\ UNCHANGED <<users, roles, perms, rolePerms>>)
           /\ ((\/ RoleGetDetail(session, i)
                \/ RoleUpdate(session, i, resp'.req.name, resp'.req.code)
                \/ RoleDelete(session, i))
               /\ i \notin DOMAIN roles)
                 => (resp'.code # CodeSuccess /\ UNCHANGED <<users, roles, perms, rolePerms>>)]_vars

-----------------------------------------------------------------------------
(* C19: an AssignPermissionsToRole(roleID, ids) step that returns nil      *)
(* leaves as join rows of the role exactly one per existing permission      *)
(* whose id is in ids (so permissions held before and not in ids are gone,  *)
(* ids of no permission add nothing, and an empty ids leaves none), leaves  *)
(* the join rows of every other role, the roles and the permissions as      *)
(* they were, and the same call made again would change nothing.            *)
C19_AssignReplacesExactly ==
    [][\A r \in RoleIds, ids \in SUBSET HeldPermIds :
          (/\ r = resp'.req.id /\ ids = resp'.req.permission_ids
           /\ \E f \in AssignFailures : CallAssignPermissionsToRole(r, ids, f)
           /\ resp'.msg = "")
             => /\ {x \in rolePerms' : x[1] = r}
                      = {<<r, i>> : i \in ids \cap DOMAIN perms}
                /\ GetRolePermissions(r)'.ids = ids \cap DOMAIN perms
                /\ {x \in rolePerms' : x[1] # r} = {x \in rolePerms : x[1] # r}
                /\ roles' = roles /\ perms' = perms
                /\ AssignPermissionsToRole(r, ids, "")'.rp = rolePerms']_vars

(* role 1 was assigned, by a request naming two ids, the one permission    *)
(* that exists, while role 2 holds it too                                   *)
C19_Witness ==
    /\ resp.route = "PermissionService.AssignPermissionsToRole"
    /\ resp.msg = "" /\ resp.req.id = 1
    /\ Cardinality(resp.req.permission_ids) = 2
    /\ Cardinality(DOMAIN perms) = 1
    /\ \E i \in DOMAIN perms : {x \in rolePerms : x[1] = 1} = {<<1, i>>}
    /\ \E x \in rolePerms : x[1] = 2

-----------------------------------------------------------------------------
(* The React app in use: page loads, the mount effect, the profile fetch    *)
(* and its two outcomes, login, logout and navigation.  The server's        *)
(* answers are the environment's choice.                                    *)

BrowserStep(next) ==
    /\ browser' = next
    /\ UNCHANGED <<db, now, session, resp, calls>>

(* the page is loaded or reloaded at a path: state is lost, localStorage    *)
(* kept                                                                      *)
Mount(location) ==
    \E p \in PageLoads(browser.token, location) : BrowserStep(p)

(* useEffect(..., []): fetchUserInfo() when a token is stored, else         *)
(* setLoading(false)                                                        *)
MountEffect ==
    /\ browser.effect
    /\ BrowserStep(IF browser.token # NoStoredToken
                   THEN [browser EXCEPT !.effect = FALSE, !.fetching = TRUE,
                                        !.sent = RequestInterceptor(browser)]
                   ELSE [browser EXCEPT !.effect = FALSE, !.loading = FALSE])

(* fetchUserInfo: getCurrentUser() resolved *)
FetchUserInfoSuccess(userData) ==
    /\ browser.fetching
    /\ BrowserStep([browser EXCEPT !.user = userData, !.loading = FALSE,
                                   !.fetching = FALSE])

(* fetchUserInfo: getCurrentUser() rejected *)
FetchUserInfoFailure ==
    /\ browser.fetching
    /\ BrowserStep([browser EXCEPT !.token = NoStoredToken, !.loading = FALSE,
                                   !.fetching = FALSE])

(* getCurrentUser() answered with HTTP 401: the response interceptor        *)
(* removes the token and sets window.location.href, which loads /login      *)
FetchUserInfoUnauthorized ==
    /\ browser.fetching
    /\ \E p \in PageLoads(NoStoredToken, "/login") : BrowserStep(p)

(* Login page: login(data.token, data.user), then navigate('/'), whose      *)
(* index route leads to /dashboard.  It runs when the login request has     *)
(* been answered, so after the mount effect.                                *)
login(token, userData) ==
    /\ browser.location = "/login"
    /\ ~browser.effect
    /\ BrowserStep([browser EXCEPT !.token = token, !.user = userData,
                                   !.location = "/dashboard",
                                   !.loginToken = token])

logout ==
    /\ ~browser.effect
    /\ BrowserStep([browser EXCEPT !.token = NoStoredToken, !.user = NoUser,
                                !.loginToken = NoStoredToken])

(* a page calls the API (api/user.js, api/role.js): the request leaves      *)
(* through the request interceptor                                          *)
SendRequest ==
    BrowserStep([browser EXCEPT !.sent = RequestInterceptor(browser)])

(* <Navigate to="/login" replace /> rendered *)
NavigateToLogin ==
    /\ Routes(browser) = "Navigate /login"
    /\ BrowserStep([browser EXCEPT !.location = "/login"])

(* a link followed inside the app *)
FollowLink(location) ==
    /\ browser.location # location
    /\ BrowserStep([browser EXCEPT !.location = location])

NextBrowser ==
    \/ \E l \in Locations : Mount(l)
    \/ MountEffect
    \/ \E u \in UserData : FetchUserInfoSuccess(u)
    \/ FetchUserInfoFailure
    \/ FetchUserInfoUnauthorized
    \/ \E t \in StoredTokens, u \in UserData : login(t, u)
    \/ logout
    \/ NavigateToLogin
    \/ \E l \in Locations : FollowLink(l)
    \/ SendRequest

SpecBrowser == Init /\ [][NextBrowser]_vars

(* C20: whatever mounts, logins, logouts and profile fetches happened, the *)
(* guard returns the protected content only when loading is false and user *)
(* is not null, returns the redirect to /login when loading is false and    *)
(* user is null, and returns neither of the two while loading is true.      *)
C20_GuardFollowsAuthState ==
    /\ PrivateRoute(browser) = "children"
          => (~browser.loading /\ browser.user # NoUser)
    /\ (~browser.loading /\ browser.user = NoUser)
          => PrivateRoute(browser) = "Navigate /login"
    /\ browser.loading
          => PrivateRoute(browser) \notin {"children", "Navigate /login"}

(* a protected page was reloaded with a token stored: the profile is being *)
(* fetched and the guard shows neither content nor redirect                 *)
C20_Witness ==
    /\ browser.location = "/system/user"
    /\ browser.loading /\ browser.fetching
    /\ browser.token # NoStoredToken
    /\ Routes(browser) = "Spin"

-----------------------------------------------------------------------------
(* C21: once login(token, user) has stored a token, every request sent     *)
(* through the shared request instance before the next logout carries the  *)
(* header Authorization: Bearer <that token>.                              *)
C21_RequestsCarryLoginToken ==
    [][(SendRequest /\ browser.loginToken # NoStoredToken)
          => browser'.sent = Bearer(browser.loginToken)]_vars

-----------------------------------------------------------------------------
(* Two CreateUser calls in progress at once.  The count and the insert are *)
(* separate statements on models.DB, so the other call may run between     *)
(* them.                                                                    *)

CallStep(p, call) == calls' = [calls EXCEPT ![p] = call]

(* the controller calls userService.CreateUser(&user); fresh records       *)
(* whether a row with that username existed at that moment                  *)
BeginCreateUser(p, username, password) ==
    /\ calls[p].pc = "idle"
    /\ nextUserId <= MaxUserId
    /\ CallStep(p, [NoCall EXCEPT !.op = "CreateUser", !.pc = "count",
                                  !.username = username, !.password = password,
                                  !.fresh = ~UsernameTaken(users, username, 0)])
    /\ UNCHANGED <<db, now, session, resp, browser>>

(* Model(&User{}).Where("username = ?").Count(&count); if count > 0 return *)
CreateUserCount(p) ==
    /\ calls[p].op = "CreateUser" /\ calls[p].pc = "count"
    /\ CallStep(p, IF UsernameTaken(users, calls[p].username, 0)
                   THEN [calls[p] EXCEPT !.pc = "returned", !.err = MsgUsernameExists]
                   ELSE [calls[p] EXCEPT !.pc = "create"])
    /\ UNCHANGED <<db, now, session, resp, browser>>

(* bcrypt.GenerateFromPassword, then return models.DB.Create(user).Error *)
CreateUserCreate(p) ==
    LET r == InsertUser(UserRow(calls[p].username,
                                GenerateFromPassword(calls[p].password), 1))
    IN  /\ calls[p].op = "CreateUser" /\ calls[p].pc = "create"
        /\ users' = r.tbl
        /\ nextUserId' = IF r.err = "" THEN nextUserId + 1 ELSE nextUserId
        /\ CallStep(p, [calls[p] EXCEPT !.pc = "returned", !.err = r.err])
        /\ UNCHANGED <<roles, nextRoleId, perms, nextPermId, rolePerms,
                       now, session, resp, browser>>

(* the handler has answered; the goroutine serves its next request *)
ReturnCall(p) ==
    /\ calls[p].pc = "returned"
    /\ CallStep(p, NoCall)
    /\ UNCHANGED <<db, now, session, resp, browser>>

NextCreateUserRace ==
    \E p \in Procs :
        \/ \E u \in Usernames, pw \in Passwords : BeginCreateUser(p, u, pw)
        \/ CreateUserCount(p)
        \/ CreateUserCreate(p)
        \/ ReturnCall(p)

SpecCreateUserRace == Init /\ [][NextCreateUserRace]_vars

RowsNamed(username) == {i \in DOMAIN users : users[i].username = username}

(* C22: however two CreateUser calls with the same username, which no row  *)
(* held when they were made, interleave, once both have returned exactly   *)
(* one has created a row and the other has returned an error; at no moment *)
(* does the table hold two rows with one username.                         *)
C22_OneOfTwoCreates ==
    /\ \A u \in Usernames : Cardinality(RowsNamed(u)) <= 1
    /\ (/\ \A p \in Procs : /\ calls[p].op = "CreateUser"
                            /\ calls[p].pc = "returned"
                            /\ calls[p].fresh
        /\ calls[1].username = calls[2].username)
          => /\ Cardinality({p \in Procs : calls[p].err = ""}) = 1
             /\ Cardinality(RowsNamed(calls[1].username)) = 1

(* both calls counted no row before either inserted; the second insert was *)
(* refused by the unique index                                              *)
C22_Witness ==
    /\ \A p \in Procs : calls[p].op = "CreateUser" /\ calls[p].pc = "returned"
    /\ calls[1].username = calls[2].username
    /\ calls[1].err = ""
    /\ calls[2].err = MsgUniqueViolation
    /\ Cardinality(RowsNamed(calls[1].username)) = 1

-----------------------------------------------------------------------------
(* Two AssignPermissionsToRole calls in progress at once: First, Clear,    *)
(* Find and Append are four statements on models.DB, none inside a         *)
(* transaction.                                                             *)

BeginAssignPermissionsToRole(p, roleID, permissionIDs) ==
    /\ calls[p].pc = "idle"
    /\ CallStep(p, [NoCall EXCEPT !.op = "AssignPermissionsToRole", !.pc = "first",
                                  !.roleID = roleID, !.ids = permissionIDs])
    /\ UNCHANGED <<db, now, session, resp, browser>>

(* models.DB.First(&role, roleID) *)
AssignFirst(p) ==
    /\ calls[p].op = "AssignPermissionsToRole" /\ calls[p].pc = "first"
    /\ CallStep(p, IF calls[p].roleID \in DOMAIN roles
                   THEN [calls[p] EXCEPT !.pc = "clear"]
                   ELSE [calls[p] EXCEPT !.pc = "returned", !.err = MsgRecordNotFound])
    /\ UNCHANGED <<db, now, session, resp, browser>>

(* Association("Permissions").Clear(); with no ids the call returns nil *)
AssignClear(p) ==
    /\ calls[p].op = "AssignPermissionsToRole" /\ calls[p].pc = "clear"
    /\ rolePerms' = {x \in rolePerms : x[1] # calls[p].roleID}
    /\ CallStep(p, IF calls[p].ids = {}
                   THEN [calls[p] EXCEPT !.pc = "returned"]
                   ELSE [calls[p] EXCEPT !.pc = "find"])
    /\ UNCHANGED <<users, nextUserId, roles, nextRoleId, perms, nextPermId,
                   now, session, resp, browser>>

(* models.DB.Find(&permissions, permissionIDs) *)
AssignFind(p) ==
    /\ calls[p].op = "AssignPermissionsToRole" /\ calls[p].pc = "find"
    /\ CallStep(p, [calls[p] EXCEPT !.pc = "append",
                                    !.found = calls[p].ids \cap DOMAIN perms])
    /\ UNCHANGED <<db, now, session, resp, browser>>

(* Association("Permissions").Append(permissions): join rows are inserted, *)
(* a row already there is left as it is                                     *)
AssignAppend(p) ==
    /\ calls[p].op = "AssignPermissionsToRole" /\ calls[p].pc = "append"
    /\ rolePerms' = rolePerms \cup {<<calls[p].roleID, i>> : i \in calls[p].found}
    /\ CallStep(p, [calls[p] EXCEPT !.pc = "returned"])
    /\ UNCHANGED <<users, nextUserId, roles, nextRoleId, perms, nextPermId,
                   now, session, resp, browser>>

NextAssignRace ==
    \E p \in Procs :
        \/ \E r \in {1, MaxRoleId + 1},
                 ids \in SUBSET {1, 2, NumDefaultPermissions + 1} :
              BeginAssignPermissionsToRole(p, r, ids)
        \/ AssignFirst(p)
        \/ AssignClear(p)
        \/ AssignFind(p)
        \/ AssignAppend(p)
        \/ ReturnCall(p)

SpecAssignRace == Init /\ [][NextAssignRace]_vars

Held(roleID) == {i \in DOMAIN perms : <<roleID, i>> \in rolePerms}

(* C23: however two AssignPermissionsToRole calls on one role, with id     *)
(* sets A and B, interleave, once both have returned nil the role holds    *)
(* the existing permissions of A or those of B, never a mixture.           *)
C23_AssignRaceSerializable ==
    (/\ \A p \in Procs : /\ calls[p].op = "AssignPermissionsToRole"
                         /\ calls[p].pc = "returned"
                         /\ calls[p].err = ""
     /\ calls[1].roleID = calls[2].roleID)
       => Held(calls[1].roleID) \in {calls[1].ids \cap DOMAIN perms,
                                     calls[2].ids \cap DOMAIN perms}

-----------------------------------------------------------------------------
(* C24: whenever AssignPermissionsToRole returns an error (the role is not *)
(* found, or clearing, loading or appending fails) the role's permission   *)
(* set is exactly what it was before the call.                             *)
C24_AssignAllOrNothing ==
    [][\A r \in RoleIds, ids \in SUBSET HeldPermIds :
          (/\ r = resp'.req.id /\ ids = resp'.req.permission_ids
           /\ \E f \in AssignFailures : CallAssignPermissionsToRole(r, ids, f)
           /\ resp'.msg # "")
             => {x \in rolePerms' : x[1] = r} = {x \in rolePerms : x[1] = r}]_vars

-----------------------------------------------------------------------------
Descendants(tree, c) == ReachFrom(tree.nodes, Range(tree.nodes[c].Children), {})

Under(tree, k) == ReachFrom(tree.nodes, {tree.roots[k]}, {})

(* C25: for every permission table, those whose parent_code values form a  *)
(* cycle or name the permission itself included, GetPermissionTrees        *)
(* returns, and what it returns is a forest: no node of it is its own      *)
(* descendant, no node is under two roots and every node is held once.     *)
C25_ForestIsAcyclic ==
    TreeReturned =>
        LET tree == resp.tree
        IN  /\ \A c \in InForest(tree) :
                  /\ c \notin Descendants(tree, c)
                  /\ ForestOccurrences(tree, c) = 1
            /\ \A k1, k2 \in 1..Len(tree.roots) :
                  k1 # k2 => Under(tree, k1) \cap Under(tree, k2) = {}

(* a forest was returned for a table in which two permissions name each    *)
(* other as parent beside a root, and for one in which a permission names  *)
(* itself beside a root with a child                                        *)
C25_Witness ==
    /\ TreeReturned
    /\ Len(resp.tree.roots) > 0
    /\ \E i, j \in DOMAIN perms :
          /\ i # j
          /\ perms[i].parent_code = perms[j].code
          /\ perms[j].parent_code = perms[i].code
          /\ perms[i].code \notin InForest(resp.tree)

-----------------------------------------------------------------------------
(* C26: in every state the app reaches by mounting, the profile fetch      *)
(* succeeding or failing, login and logout, loading false and user         *)
(* non-null imply that a token is in localStorage.                         *)
C26_AuthenticatedHasToken ==
    (~browser.loading /\ isAuthenticated(browser))
        => browser.token # NoStoredToken

-----------------------------------------------------------------------------
(* PermissionService.GetUserPermissions: the codes of the permissions of   *)
(* the user's role, none when the user or the role is missing              *)
GetUserPermissions(userID) ==
    IF userID \notin DOMAIN users THEN {}
    ELSE IF users[userID].role_id \notin DOMAIN roles THEN {}
    ELSE {perms[i].code : i \in {j \in DOMAIN perms :
                                    <<users[userID].role_id, j>> \in rolePerms}}

(* The user and role routes together *)
NextRoleRefs ==
    \/ Login("admin", "admin123")
    \/ \E u \in Usernames : UserCreate(session, u, "pw2")
    \/ \E i \in UserIds, u \in {"", "carol"}, st \in StatusInputs :
          UserUpdate(session, i, u, st)
    \/ \E i \in UserIds : UserDelete(session, i)
    \/ \E c \in {"admin", "ops"} : RoleCreate(session, "ops", c)
    \/ \E i \in RoleIds, c \in {"", "ops"} : RoleUpdate(session, i, "", c)
    \/ \E i \in RoleIds : RoleDelete(session, i)

SpecRoleRefs == Init /\ [][NextRoleRefs]_vars

(* C27: whatever user and role requests were served, every user's role_id *)
(* is null, CheckPermission is false for every user and permission code    *)
(* and GetUserPermissions is empty for every user.                         *)
C27_NoUserHoldsARole ==
    \A i \in DOMAIN users :
        /\ users[i].role_id = 0
        /\ \A j \in DOMAIN perms : ~CheckPermission(i, perms[j].code)
        /\ GetUserPermissions(i) = {}

(* a user was created and then renamed and disabled, and a role created,   *)
(* while the role admin still holds permissions                             *)
C27_Witness ==
    /\ 2 \in DOMAIN users
    /\ users[2].username = "carol" /\ users[2].status = 0
    /\ \E r \in DOMAIN roles : roles[r].code = "ops"
    /\ \E x \in rolePerms : x[1] = 1

-----------------------------------------------------------------------------
OnlyStatusChanged ==
    /\ users' # users
    /\ DOMAIN users' = DOMAIN users
    /\ \A i \in DOMAIN users :
          users'[i] = [users[i] EXCEPT !.status = users'[i].status]

(* C28: Login does not consult the user's status.  A login with the        *)
(* user's name and password is answered with a token whether that user's   *)
(* status is 1 or 0, and when a step changes nothing but users' status     *)
(* every login is answered after it as it was before it.                   *)
C28_LoginIgnoresStatus ==
    /\ [][\A u \in Usernames, p \in Passwords :
             (/\ u = resp'.req.username /\ p = resp'.req.password
              /\ Login(u, p)
              /\ GetUserByUsername(u) # 0
              /\ VerifyPassword(users[GetUserByUsername(u)], p))
                => /\ resp'.code = CodeSuccess
                   /\ resp'.token = GenerateToken(GetUserByUsername(u), u)
                   /\ resp'.token # NoToken]_vars
    /\ [][OnlyStatusChanged
             => \A u \in Usernames, p \in Passwords :
                   LoginResult(u, p)' = LoginResult(u, p)]_vars

(* a disabled user has just logged in *)
C28_Witness ==
    /\ resp.route = "POST /auth/login"
    /\ resp.code = CodeSuccess
    /\ resp.id \in DOMAIN users
    /\ users[resp.id].status = 0
    /\ resp.token # NoToken

-----------------------------------------------------------------------------
(* what the client receives: the status line and the {code, msg, data}     *)
(* envelope                                                                 *)
Envelope(r) ==
    [http |-> r.http, code |-> r.code, msg |-> r.msg, token |-> r.token, id |-> r.id]

BadCredentials ==
    [http |-> HttpOK, code |-> CodeError, msg |-> MsgBadCredentials,
     token |-> NoToken, id |-> 0]

(* C29: a login naming no existing user and a login naming an existing     *)
(* user with a wrong password are answered alike: HTTP 200, code 500, the  *)
(* bad-credentials message, no data.                                        *)
C29_LoginHidesUsernames ==
    [][\A u \in Usernames \cup {"ghost"}, p \in Passwords :
          (/\ u = resp'.req.username /\ p = resp'.req.password
           /\ Login(u, p)
           /\ \/ GetUserByUsername(u) = 0
              \/ ~VerifyPassword(users[GetUserByUsername(u)], p))
             => /\ Envelope(resp') = BadCredentials
                /\ Envelope(LoginResult("ghost", p)) = Envelope(resp')
                /\ session' = session]_vars

(* a login named an existing user with a wrong password, in a state where  *)
(* no user is called ghost                                                  *)
C29_Witness ==
    /\ resp.route = "POST /auth/login"
    /\ resp.req.username = "admin"
    /\ GetUserByUsername("admin") # 0
    /\ GetUserByUsername("ghost") = 0
    /\ ~VerifyPassword(users[GetUserByUsername("admin")], resp.req.password)
    /\ Envelope(resp) = BadCredentials

-----------------------------------------------------------------------------
(* Logins and password changes of two accounts *)
NextPasswords ==
    \/ \E u \in Usernames, p \in Passwords : Login(u, p)
    \/ UserCreate(session, "bob", "pw2")
    \/ \E i \in UserIds : UserDelete(session, i)
    \/ \E o, n \in Passwords \cup {""} : ChangePassword(session, o, n)

SpecPasswords == Init /\ [][NextPasswords]_vars

(* a ChangePassword request of the session's user with these passwords is  *)
(* served in this step                                                      *)
ChangePasswordStep(o, n) ==
    /\ o = resp'.req.old_password /\ n = resp'.req.password
    /\ o # "" /\ n # ""
    /\ session.uid \in DOMAIN users
    /\ ChangePassword(session, o, n)

OthersKept ==
    /\ DOMAIN users' = DOMAIN users
    /\ \A j \in DOMAIN users : j # session.uid => users'[j] = users[j]

(* C30 as claimed: with a wrong old password ChangePassword answers that   *)
(* the old password is wrong and no stored hash changes; it succeeds only  *)
(* with the right old password, and after it Login with the new password   *)
(* succeeds, Login with the old password fails, and no other user's row    *)
(* has changed.                                                             *)
C30_ChangePasswordAsClaimed ==
    [][\A o, n \in Passwords :
          ChangePasswordStep(o, n) =>
             /\ ~VerifyPassword(users[session.uid], o)
                   => (resp'.msg = MsgOldPasswordWrong /\ users' = users)
             /\ resp'.code = CodeSuccess
                   => /\ VerifyPassword(users[session.uid], o)
                      /\ LoginResult(users[session.uid].username, n)'.code = CodeSuccess
                      /\ LoginResult(users[session.uid].username, o)'.code = CodeError
                      /\ OthersKept]_vars

(* C30, amended: the same, Login with the old password failing after the   *)
(* change unless the new password is the old one.                          *)
C30_ChangePasswordReplaces ==
    [][\A o, n \in Passwords :
          ChangePasswordStep(o, n) =>
             /\ ~VerifyPassword(users[session.uid], o)
                   => (resp'.msg = MsgOldPasswordWrong /\ users' = users)
             /\ resp'.code = CodeSuccess
                   => /\ VerifyPassword(users[session.uid], o)
                      /\ LoginResult(users[session.uid].username, n)'.code = CodeSuccess
                      /\ o # n => LoginResult(users[session.uid].username, o)'.code
                                     = CodeError
                      /\ OthersKept]_vars

(* bob has replaced his password by the one admin uses, and admin's row is *)
(* as it was                                                                *)
C30_Witness ==
    /\ resp.route = "POST /auth/change-password"
    /\ resp.code = CodeSuccess
    /\ resp.req.old_password = "pw2" /\ resp.req.password = "admin123"
    /\ session.uid = 2 /\ 2 \in DOMAIN users
    /\ VerifyPassword(users[2], "admin123") /\ ~VerifyPassword(users[2], "pw2")
    /\ 1 \in DOMAIN users /\ VerifyPassword(users[1], "admin123")

====
